---------------------------- MODULE Spec2Model ----------------------------
(***************************************************************************)
(* Model of the fraud-demo decision pipeline: the stream worker            *)
(* (services/stream_worker), the recommendation agent (services/agent)     *)
(* and the queues between them.                                            *)
(*                                                                         *)
(* Numbers.  Scores and thresholds are Python floats; they are modelled as *)
(* integers in units of 1/10000 (0.75 is 7500, 0.0005 is 5).  Every        *)
(* arithmetic step the code performs on them (0.75 + 0.15, comparisons)    *)
(* is exact on the values used here.                                       *)
(*                                                                         *)
(* JSON values.  A field of a decoded message is a record [t, n]: t is the *)
(* JSON type as Python sees it ("missing" when the key is absent, "null",  *)
(* "num", "str" for a string float() rejects), n the number.               *)
(***************************************************************************)
EXTENDS Integers, Sequences, FiniteSets, TLC

VARIABLES
    policy_doc,     \* the decision_policy.json both processes read
    env,            \* the process environment (os.environ) of both services
    tau,            \* StreamWorker.tau
    tau_high,       \* StreamWorker.tau_high
    probe,          \* the decision calls made so far: the last two results
    alerts_q,       \* alerts.high_risk: messages ready for delivery
    unacked,        \* alerts.high_risk: delivered to the agent, not acknowledged
    recs_q,         \* analyst.recommendations: messages published
    store_alerts,   \* SqliteStore table alerts: txn_id -> rows
    store_recs,     \* SqliteStore table recommendations: txn_id -> rows
    a_state,        \* AgentService: starting, failed, consuming, reconnecting or crashed
    a_conn,         \* the agent's connection: attempts made, queues declared and used
    a_last,         \* what the last call of AgentService.handle did
    a_count,        \* alerts published, calls of handle, connection losses
    tx_q,           \* transactions.raw: messages ready for delivery
    w_unacked,      \* transactions.raw: delivered to the worker, not acknowledged
    scores_q,       \* fraud.scores: records published
    user_history,   \* FeatureComputer.user_history: user -> time steps
    merchant_history, \* FeatureComputer.merchant_history: merchant -> time steps
    w_state,        \* StreamWorker: starting, failed, consuming or crashed
    w_conn,         \* the worker's connection: attempts made, queues declared and used
    w_last,         \* what the last call of StreamWorker.handle did
    f_last,         \* what the last call of FeatureComputer.compute returned
    w_count,        \* transactions published, calls of handle
    r_rules,        \* RulesEngine.rules: the rule list loaded from the rules file
    r_last,         \* what the last call of RulesEngine.eval did
    k_last          \* what the last call of _normalize_key_signals returned

policyVars == <<policy_doc, env, tau, tau_high, probe>>
agentVars == <<alerts_q, unacked, recs_q, store_alerts, store_recs, a_state, a_conn,
               a_last, a_count>>
workerVars == <<tx_q, w_unacked, scores_q, user_history, merchant_history,
                w_state, w_conn, w_last, f_last, w_count>>
rulesVars == <<r_rules, r_last>>
normVars == <<k_last>>
vars == <<policy_doc, env, tau, tau_high, probe,
          alerts_q, unacked, recs_q, store_alerts, store_recs, a_state, a_conn,
          a_last, a_count,
          tx_q, w_unacked, scores_q, user_history, merchant_history,
          w_state, w_conn, w_last, f_last, w_count, r_rules, r_last, k_last>>

----------------------------------------------------------------------------
(* JSON values *)

Missing == [t |-> "missing", n |-> 0]
Null    == [t |-> "null", n |-> 0]
Num(x)  == [t |-> "num", n |-> x]
Str     == [t |-> "str", n |-> 0]

\* float(v) raises TypeError on None and ValueError on a non-numeric string.
FloatOk(v) == v.t = "num"

\* d.get(key, default) followed by float(): the default replaces a missing
\* key only; a key present with null still reaches float(None).
GetFloatOk(v) == v.t = "missing" \/ FloatOk(v)
GetFloat(v, default) == IF v.t = "missing" THEN default ELSE v.n

----------------------------------------------------------------------------
(* Bounds *)

MaxRules == 3

RuleNames == <<"r1", "r2", "r3", "r4", "r5">>
RuleList(k) == [i \in 1..k |-> RuleNames[i]]
RuleLists == {RuleList(k) : k \in 0..MaxRules}

ScoreVals == {0, 2000, 5000, 6000, 7500, 8000, 9000, 9500}
ThreshVals == {5000, 7500, 9000}

----------------------------------------------------------------------------
(* Decision policy *)

DEFAULT_TAU == 7500
DEFAULT_TAU_HIGH == 9000
TAU_HIGH_GAP == 1500

\* Mutants of baseline_decision: a strict comparison with tau_high, and an
\* exact rule count in place of "two or more".
baseline_decision_strict(score, rules, t, th) ==
    IF score > th \/ Len(rules) >= 2 THEN "block"
    ELSE IF score >= t \/ Len(rules) >= 1 THEN "step_up"
    ELSE "allow"

baseline_decision_exact2(score, rules, t, th) ==
    IF score >= th \/ Len(rules) = 2 THEN "block"
    ELSE IF score >= t \/ Len(rules) >= 1 THEN "step_up"
    ELSE "allow"

baseline_decision(score, rules, t, th) ==
    IF score >= th \/ Len(rules) >= 2 THEN "block"
    ELSE IF score >= t \/ Len(rules) >= 1 THEN "step_up"
    ELSE "allow"

\* The thresholds object of the policy document.  kind "absent" is a file
\* that cannot be opened or decoded (open or json.load raises).
PolicyDocs ==
    {[kind |-> "absent", tau |-> Missing, tau_high |-> Missing]} \cup
    [kind : {"obj"},
     tau : {Missing, Str} \cup {Num(x) : x \in ThreshVals},
     tau_high : {Missing, Str} \cup {Num(x) : x \in ThreshVals}]

\* load_policy_thresholds(policy_path, tau_default): the defaults are set
\* before the try block, each assignment inside it may raise, and what was
\* assigned before the raise stays.
load_policy_thresholds(doc, tau_default, env_high) ==
    LET tau0 == tau_default
        high0 == IF env_high.t = "missing" THEN tau0 + TAU_HIGH_GAP ELSE env_high.n
    IN  IF doc.kind # "obj" THEN <<tau0, high0>>
        ELSE IF ~GetFloatOk(doc.tau) THEN <<tau0, high0>>
        ELSE IF ~GetFloatOk(doc.tau_high) THEN <<GetFloat(doc.tau, tau0), high0>>
        ELSE <<GetFloat(doc.tau, tau0), GetFloat(doc.tau_high, high0)>>

\* The same reading in AgentService.policy_fallback, with literal defaults.
AgentThresholds(doc) ==
    IF doc.kind # "obj" THEN <<DEFAULT_TAU, DEFAULT_TAU_HIGH>>
    ELSE IF ~GetFloatOk(doc.tau) THEN <<DEFAULT_TAU, DEFAULT_TAU_HIGH>>
    ELSE IF ~GetFloatOk(doc.tau_high)
         THEN <<GetFloat(doc.tau, DEFAULT_TAU), DEFAULT_TAU_HIGH>>
    ELSE <<GetFloat(doc.tau, DEFAULT_TAU), GetFloat(doc.tau_high, DEFAULT_TAU_HIGH)>>

----------------------------------------------------------------------------
(* Alerts and recommendations *)

\* A key that is absent or null in a decoded message reads as None.
NoId == "None"

NoList == [t |-> "missing", l |-> <<>>]
NullList == [t |-> "null", l |-> <<>>]
ListOf(l) == [t |-> "list", l |-> l]

NoMap == [t |-> "missing", m |-> <<>>]
NullMap == [t |-> "null", m |-> <<>>]
MapOf(m) == [t |-> "map", m |-> m]
StrMap == [t |-> "str", m |-> <<>>]

\* The alert StreamWorker.handle builds (worker.py 146-161); only the fields
\* the agent reads are kept.  kind is "obj" for a JSON object, "arr" for
\* any other JSON value, "bad" for a body json.loads rejects.
MkAlert(txn_id, user_id, merchant, amount, features, score, fired, threshold, base_dec) ==
    [kind |-> "obj", txn_id |-> txn_id, user_id |-> user_id, merchant |-> merchant,
     amount |-> amount, features |-> features, score |-> score,
     reasons |-> fired, threshold |-> threshold, baseline_decision |-> base_dec]

\* f"{x:.2f}" and f"{x:.3f}" of a value held in 1/10000: hundredths, thousandths.
Fmt2(x) == (x + 50) \div 100
Fmt3(x) == (x + 5) \div 10

NoRationale ==
    [kind |-> "none", nollm |-> FALSE, pscore |-> 0, pmin |-> 0,
     score |-> 0, rules |-> NoList, tau |-> 0, tau_high |-> 0]

NoRec ==
    [decision_recommendation |-> "none", rationale |-> NoRationale,
     key_signals |-> <<>>, actions |-> <<>>]

Raised == [ok |-> FALSE, rec |-> NoRec]
Returned(rec) == [ok |-> TRUE, rec |-> rec]

\* s[:k]
FirstN_all(s, k) == s
FirstN(s, k) == IF Len(s) <= k THEN s ELSE SubSeq(s, 1, k)

\* AgentService.policy_fallback(alert).  `or` short-circuits: len(reasons)
\* is evaluated only when the score comparison before it is false, and
\* len(None) raises TypeError.
policy_fallback(alert, doc) ==
    LET th == AgentThresholds(doc)
        t == th[1]
        h == th[2]
        s == GetFloat(alert.score, 0)
        reasons == IF alert.reasons.t = "missing" THEN ListOf(<<>>) ELSE alert.reasons
        lenOk == reasons.t = "list"
        n == Len(reasons.l)
        feats == IF alert.features.t \in {"missing", "null"} THEN MapOf(<<>>)
                 ELSE IF alert.features.t = "map" /\ alert.features.m = <<>> THEN MapOf(<<>>)
                 ELSE alert.features
        rec == IF s >= h \/ n >= 2 THEN "block"
               ELSE IF s >= t \/ n >= 1 THEN "step_up"
               ELSE "allow"
    IN  IF ~GetFloatOk(alert.score) THEN Raised
        ELSE IF s < h /\ ~lenOk THEN Raised
        ELSE IF feats.t # "map" THEN Raised
        ELSE Returned(
            [decision_recommendation |-> rec,
             rationale |-> [kind |-> "fallback", nollm |-> FALSE, pscore |-> 0, pmin |-> 0,
                            score |-> Fmt2(s), rules |-> reasons,
                            tau |-> Fmt2(t), tau_high |-> Fmt2(h)],
             key_signals |-> FirstN(feats.m, 3),
             actions |-> IF rec \in {"step_up", "block"}
                         THEN <<"manual_review_queue">> ELSE <<"none">>])

----------------------------------------------------------------------------
(* The reasoning backend's reply and its validation *)

\* One entry of a reply's key_signals.  name is the name after str() and
\* strip() ("" when absent or blank); value.t is the JSON type.
KsItem(isdict, name, value) == [isdict |-> isdict, name |-> name, value |-> value]
BoolV(b) == [t |-> "bool", n |-> IF b THEN 1 ELSE 0]

\* What OllamaClient.chat and json.loads give: "error" (the request raised,
\* non-success status, undecodable envelope), "nonjson" (the content is not
\* JSON), "nonobj" (JSON, not an object), or "obj" with the four fields:
\* decision "missing", "nonstr" or the string; rationale "str", "missing" or
\* "nonstr"; key_signals a list, "missing" or "nonlist"; actions likewise
\* ("badlist": a list holding a non-string).
LlmReply(kind, decision, rationale, ks_t, ks, act_t, actions) ==
    [kind |-> kind, decision |-> decision, rationale |-> rationale,
     ks_t |-> ks_t, ks |-> ks, act_t |-> act_t, actions |-> actions]

LlmError == LlmReply("error", "missing", "missing", "missing", <<>>, "missing", <<>>)
LlmNonJson == LlmReply("nonjson", "missing", "missing", "missing", <<>>, "missing", <<>>)
LlmNonObj == LlmReply("nonobj", "missing", "missing", "missing", <<>>, "missing", <<>>)

NoAlert ==
    [kind |-> "none", txn_id |-> NoId, user_id |-> NoId, merchant |-> NoId,
     amount |-> Missing, features |-> NoMap, score |-> Missing,
     reasons |-> NoList, threshold |-> Missing, baseline_decision |-> "none"]

MAX_KEY_SIGNALS == 5

FeatureOf(feats, name) ==
    LET hits == {i \in 1..Len(feats) : feats[i].name = name}
    IN  IF hits = {} THEN Missing
        ELSE feats[CHOOSE i \in hits : \A j \in hits : j <= i].value

RECURSIVE CleanSignals(_, _, _, _)
\* The loop of _normalize_key_signals over ks (agent.py 62-88).
CleanSignals(ks, alert, max_items, cleaned) ==
    IF ks = <<>> THEN cleaned
    ELSE LET item == Head(ks)
             v == item.value
             f == FeatureOf(alert.features.m, item.name)
             isNum == v.t \in {"num", "bool"}
             next == IF ~item.isdict \/ item.name = "" THEN cleaned
                     ELSE IF isNum
                          THEN Append(cleaned, [name |-> item.name, value |-> Num(v.n)])
                     ELSE IF f.t \in {"num", "bool"}
                          THEN Append(cleaned, [name |-> item.name, value |-> Num(f.n)])
                     ELSE IF \E i \in 1..Len(alert.reasons.l) : alert.reasons.l[i] = item.name
                          THEN Append(cleaned, [name |-> item.name, value |-> Num(1)])
                     ELSE cleaned
         IN  IF Len(next) > Len(cleaned) /\ Len(next) >= max_items THEN next
             ELSE CleanSignals(Tail(ks), alert, max_items, next)

\* _normalize_key_signals(obj, alert, max_items): the reply with key_signals
\* replaced by the cleaned list (the empty list when it was not a list).
\* obj.get raises on a reply that is not an object.
normalize_key_signals_untrimmed(reply, alert, max_items) ==
    [reply EXCEPT !.ks_t = "list",
                  !.ks = IF reply.ks_t = "list"
                         THEN CleanSignals(reply.ks, alert, Len(reply.ks) + 1, <<>>)
                         ELSE <<>>]
normalize_key_signals(reply, alert, max_items) ==
    [reply EXCEPT !.ks_t = "list",
                  !.ks = IF reply.ks_t = "list"
                         THEN CleanSignals(reply.ks, alert, max_items, <<>>)
                         ELSE <<>>]

NoNorm == [called |-> FALSE, obj |-> LlmError, alert |-> NoAlert, out |-> LlmError]

NormIdle == k_last = NoNorm

\* One call _normalize_key_signals(obj, alert) with the default max_items.
Normalize(obj, alert) ==
    /\ k_last' = [called |-> TRUE, obj |-> obj, alert |-> alert,
                  out |-> normalize_key_signals(obj, alert, MAX_KEY_SIGNALS)]
    /\ UNCHANGED policyVars
    /\ UNCHANGED agentVars
    /\ UNCHANGED workerVars
    /\ UNCHANGED rulesVars

Decisions == {"allow", "step_up", "block"}

\* validate(candidate, AGENT_JSON_SCHEMA) on a normalized reply.
SchemaValid(c) ==
    /\ c.decision \in Decisions
    /\ c.rationale = "str"
    /\ c.ks_t = "list"
    /\ \A i \in 1..Len(c.ks) : c.ks[i].name # "" /\ c.ks[i].value.t = "num"
    /\ c.act_t = "list"

LlmRationale ==
    [kind |-> "llm", nollm |-> FALSE, pscore |-> 0, pmin |-> 0,
     score |-> 0, rules |-> NoList, tau |-> 0, tau_high |-> 0]

\* agent.py 171-176: the try block.  handle passes no alert to
\* _normalize_key_signals.
Candidate(reply) ==
    IF reply.kind # "obj" THEN Raised
    ELSE LET c == normalize_key_signals(reply, NoAlert, MAX_KEY_SIGNALS)
         IN  IF ~SchemaValid(c) THEN Raised
             ELSE Returned([decision_recommendation |-> c.decision,
                            rationale |-> LlmRationale,
                            key_signals |-> c.ks, actions |-> c.actions])

\* agent.py 183-188.
DefaultRec ==
    [decision_recommendation |-> "step_up",
     rationale |-> [kind |-> "default", nollm |-> FALSE, pscore |-> 0, pmin |-> 0,
                    score |-> 0, rules |-> NoList, tau |-> 0, tau_high |-> 0],
     key_signals |-> <<>>, actions |-> <<"manual_review_queue">>]

----------------------------------------------------------------------------
(* Environment of the two services *)

DEFAULT_MIN_SCORE_FOR_LLM == 10

\* Settings.ALERT_THRESHOLD (worker config.py 6), ALERT_THRESHOLD_HIGH
\* (worker.py 10), Settings.FALLBACK_ENABLE (agent config.py 8) and
\* MIN_SCORE_FOR_LLM (agent.py 160), each with the default the code gives it.
DefaultEnv ==
    [ALERT_THRESHOLD |-> DEFAULT_TAU, ALERT_THRESHOLD_HIGH |-> Missing,
     FALLBACK_ENABLE |-> TRUE, MIN_SCORE_FOR_LLM |-> DEFAULT_MIN_SCORE_FOR_LLM]

PolicyEnvs ==
    {DefaultEnv,
     [DefaultEnv EXCEPT !.ALERT_THRESHOLD = 5000],
     [DefaultEnv EXCEPT !.ALERT_THRESHOLD_HIGH = Num(8000)]}

\* StreamWorker.__init__: the thresholds are read once, at start.
WorkerThresholds(doc, e) ==
    load_policy_thresholds(doc, e.ALERT_THRESHOLD, e.ALERT_THRESHOLD_HIGH)

----------------------------------------------------------------------------
(* The agent: AgentService.handle and AgentService.run *)

TxnIds == {"t1", "t2", NoId}

\* SqliteStore.upsert_alert: INSERT OR REPLACE keyed by txn_id.  A NULL key
\* never conflicts, so each such insert adds a row.
UpsertRow(tbl, id, row) ==
    IF id = NoId THEN [tbl EXCEPT ![id] = Append(@, row)]
    ELSE [tbl EXCEPT ![id] = <<row>>]

\* The three float() calls of upsert_alert (storage.py 24-25).
UpsertOk(a) == GetFloatOk(a.amount) /\ GetFloatOk(a.score) /\ GetFloatOk(a.threshold)

AlertRow(a) ==
    [user_id |-> a.user_id, merchant |-> a.merchant, amount |-> GetFloat(a.amount, 0),
     score |-> GetFloat(a.score, 0), reasons |-> a.reasons,
     threshold |-> GetFloat(a.threshold, 0)]

\* agent.py 159: float(alert.get("score", 0.0) or 0.0).
HandleScore(a) == GetFloat(a.score, 0)

\* agent.py 161: the short-circuit test.
ShortCircuit_strict(score, min_llm) == score < min_llm
ShortCircuit(score, min_llm) == score <= min_llm

\* agent.py 164: the short-circuit path prefixes the fallback's rationale.
NoLlmRec(rec, score, min_llm) ==
    [rec EXCEPT !.rationale.nollm = TRUE, !.rationale.pscore = Fmt3(score),
                !.rationale.pmin = min_llm]

\* agent.py 177-188: what follows a failed try block.  [ok |-> FALSE] is an
\* exception leaving handle, raised by policy_fallback inside the handler.
AfterFailure_nofallback(alert, doc, fallback_enable) == Returned(DefaultRec)
AfterFailure(alert, doc, fallback_enable) ==
    IF fallback_enable THEN policy_fallback(alert, doc) ELSE Returned(DefaultRec)

\* The recommendation handle settles on, with the path taken.
Recommend(alert, reply, doc, e) ==
    LET score == HandleScore(alert)
        min_llm == e.MIN_SCORE_FOR_LLM
        fb == policy_fallback(alert, doc)
        cand == Candidate(reply)
        after == AfterFailure(alert, doc, e.FALLBACK_ENABLE)
    IN  IF ShortCircuit(score, min_llm)
        THEN [path |-> "short", llm_called |-> FALSE, ok |-> fb.ok,
              rec |-> IF fb.ok THEN NoLlmRec(fb.rec, score, min_llm) ELSE NoRec]
        ELSE IF cand.ok
        THEN [path |-> "llm", llm_called |-> TRUE, ok |-> TRUE, rec |-> cand.rec]
        ELSE [path |-> IF e.FALLBACK_ENABLE THEN "fallback" ELSE "default",
              llm_called |-> TRUE, ok |-> after.ok, rec |-> after.rec]

NoOutcome ==
    [end |-> "raised", path |-> "none", upsert |-> FALSE, llm_called |-> FALSE,
     pub |-> <<>>, saved |-> FALSE, ack_calls |-> 0, acked |-> FALSE, ops |-> <<>>]

\* The prefix of ops that ends with the first occurrence of op.
UpTo(ops, op) ==
    IF \E i \in 1..Len(ops) : ops[i] = op
    THEN SubSeq(ops, 1, CHOOSE i \in 1..Len(ops) : ops[i] = op /\ \A j \in 1..(i - 1) : ops[j] # op)
    ELSE ops

\* The store, backend and channel operations of a call of handle that runs
\* to its end, in the order the code issues them (agent.py 154, 157, 172,
\* 165/191, 166/192, 167/195).
HandleOps_ackfirst(llm_called) ==
    <<"upsert", "recent">> \o (IF llm_called THEN <<"llm">> ELSE <<>>) \o
    <<"publish", "ack", "save">>
HandleOps(llm_called) ==
    <<"upsert", "recent">> \o (IF llm_called THEN <<"llm">> ELSE <<>>) \o
    <<"publish", "save", "ack">>

\* agent.py 147-151: a body json.loads rejects is acknowledged and dropped.
DropOutcome_noack(loss) == [NoOutcome EXCEPT !.end = "returned", !.path = "drop"]
DropOutcome(loss) ==
    [NoOutcome EXCEPT !.end = IF loss = "ack" THEN "lost" ELSE "returned",
                      !.path = "drop", !.ack_calls = 1, !.acked = (loss # "ack"),
                      !.ops = <<"ack">>]

\* agent.py 157-195: the rest of handle once the alert is stored, r being
\* what the recommendation steps gave.
OutcomeAfter(r, loss) ==
    LET none == NoOutcome
    IN  IF ~r.ok
        THEN [none EXCEPT !.path = r.path, !.upsert = TRUE, !.llm_called = r.llm_called,
                          !.ops = UpTo(HandleOps(r.llm_called),
                                       IF r.llm_called THEN "llm" ELSE "recent")]
        ELSE IF loss = "publish"
        THEN [none EXCEPT !.end = "lost", !.path = r.path, !.upsert = TRUE,
                          !.llm_called = r.llm_called,
                          !.ops = UpTo(HandleOps(r.llm_called), "publish")]
        ELSE [end |-> IF loss = "ack" THEN "lost" ELSE "returned",
              path |-> r.path, upsert |-> TRUE, llm_called |-> r.llm_called,
              pub |-> <<r.rec>>, saved |-> TRUE, ack_calls |-> 1, acked |-> (loss # "ack"),
              ops |-> HandleOps(r.llm_called)]

\* One call of handle(ch, method, props, body).  loss names the channel
\* operation at which the connection is found lost: "none", "publish"
\* (basic_publish raises) or "ack" (basic_ack raises).  end is "returned",
\* "raised" (an exception that is not a connection error) or "lost".
HandleOutcome(alert, reply, loss, doc, e) ==
    IF alert.kind = "bad" THEN DropOutcome(loss)
    ELSE IF alert.kind # "obj" THEN NoOutcome
    ELSE IF ~UpsertOk(alert) THEN NoOutcome
    ELSE OutcomeAfter(Recommend(alert, reply, doc, e), loss)

PREFETCH_AGENT == 50

NoLast ==
    [n |-> 0, mid |-> 0, alert |-> NoAlert, reply |-> LlmError, loss |-> "none",
     out |-> [NoOutcome EXCEPT !.end = "none"]]

\* basic_publish without properties leaves the delivery mode unset, which
\* the broker treats as transient (1); publish_rec sets 2.
DELIVERY_MODE_DEFAULT == 1
DELIVERY_MODE_PERSISTENT == 2

Q_TRANSACTIONS == "transactions.raw"
Q_SCORES == "fraud.scores"
Q_ALERTS == "alerts.high_risk"
Q_RECS == "analyst.recommendations"

RETRIES_AGENT == 10

\* No connection: what a connect that raised leaves behind.
NoConn ==
    [fails |-> 0, attempts |-> 0, declared |-> {}, ndeclare |-> 0,
     consumer |-> FALSE, prefetch |-> 0, used |-> {}]

\* The retry loop shared by connect_with_retry (agent.py 34-46) and
\* RabbitClient.__init__ (messaging.py 17-29): attempt is the loop variable,
\* fails the number of attempts the broker refuses before it accepts one.
\* The first attempt that succeeds returns; after the last one fails the
\* loop ends and last_err is raised.
RECURSIVE ConnectLoop_short(_, _, _)
ConnectLoop_short(attempt, fails, retries) ==
    IF attempt >= retries THEN [ok |-> FALSE, attempts |-> attempt - 1]
    ELSE IF attempt > fails THEN [ok |-> TRUE, attempts |-> attempt]
    ELSE ConnectLoop_short(attempt + 1, fails, retries)

RECURSIVE ConnectLoop(_, _, _)
ConnectLoop(attempt, fails, retries) ==
    IF attempt > retries THEN [ok |-> FALSE, attempts |-> retries]
    ELSE IF attempt > fails THEN [ok |-> TRUE, attempts |-> attempt]
    ELSE ConnectLoop(attempt + 1, fails, retries)

\* The queues the successful attempt declares (agent.py 38-39).
AgentDeclares_none == <<>>
AgentDeclares == <<Q_ALERTS, Q_RECS>>

SeqToSet(q) == {q[i] : i \in 1..Len(q)}

\* connect_with_retry(host, port, vhost): [ok |-> FALSE] is the raise of
\* line 46.
connect_with_retry(fails, retries) ==
    LET r == ConnectLoop(1, fails, retries)
    IN  [ok |-> r.ok,
         conn |-> IF r.ok
                  THEN [NoConn EXCEPT !.fails = fails, !.attempts = r.attempts,
                                      !.declared = SeqToSet(AgentDeclares),
                                      !.ndeclare = Len(AgentDeclares)]
                  ELSE [NoConn EXCEPT !.fails = fails, !.attempts = r.attempts]]

\* AgentService._setup_consumer on the channel of conn.
setup_consumer(conn) ==
    [conn EXCEPT !.consumer = TRUE, !.prefetch = PREFETCH_AGENT,
                 !.used = @ \cup {Q_ALERTS}]

AgentIdle ==
    /\ alerts_q = <<>>
    /\ unacked = <<>>
    /\ recs_q = <<>>
    /\ store_alerts = [id \in TxnIds |-> <<>>]
    /\ store_recs = [id \in TxnIds |-> <<>>]
    /\ a_state = "consuming"
    /\ a_conn = setup_consumer(connect_with_retry(0, RETRIES_AGENT).conn)
    /\ a_last = NoLast
    /\ a_count = [sent |-> 0, handled |-> 0, lost |-> 0]

\* A producer publishes a body to alerts.high_risk (worker.py 162; the
\* publisher publishes any line to the queue it is given).
PublishAlert(body) ==
    /\ alerts_q' = Append(alerts_q, [mid |-> a_count.sent + 1, body |-> body,
                                      delivery_mode |-> DELIVERY_MODE_DEFAULT])
    /\ a_count' = [a_count EXCEPT !.sent = @ + 1]
    /\ UNCHANGED <<unacked, recs_q, store_alerts, store_recs, a_state, a_conn, a_last>>
    /\ UNCHANGED policyVars
    /\ UNCHANGED rulesVars
    /\ UNCHANGED normVars
    /\ UNCHANGED workerVars

\* agent.py 208-210, 226-229: what run does when handle has returned or
\* has raised an exception that is no connection error: the loop calls
\* start_consuming again.
AfterHandle_stops(o) == IF o.end = "raised" THEN "stopped" ELSE "consuming"
AfterHandle(o) == "consuming"

\* The broker delivers the head of the queue and handle runs on it.
Delivered(msg, reply, loss, o) ==
    /\ LET a == msg.body
       IN  /\ a_last' = [n |-> a_count.handled + 1, mid |-> msg.mid, alert |-> a,
                         reply |-> IF o.llm_called THEN reply ELSE LlmError,
                         loss |-> IF o.end = "lost" THEN loss ELSE "none", out |-> o]
           /\ store_alerts' = IF o.upsert THEN UpsertRow(store_alerts, a.txn_id, AlertRow(a))
                              ELSE store_alerts
           /\ store_recs' = IF o.saved THEN UpsertRow(store_recs, a.txn_id, o.pub[1])
                            ELSE store_recs
           /\ recs_q' = IF o.pub # <<>>
                        THEN Append(recs_q, [mid |-> msg.mid, txn_id |-> a.txn_id,
                                             rec |-> o.pub[1],
                                             delivery_mode |-> DELIVERY_MODE_PERSISTENT])
                        ELSE recs_q
           /\ a_conn' = [a_conn EXCEPT !.used =
                            @ \cup (IF \E i \in 1..Len(o.ops) : o.ops[i] = "publish"
                                    THEN {Q_RECS} ELSE {})]
           /\ a_count' = [a_count EXCEPT !.handled = @ + 1,
                                         !.lost = IF o.end = "lost" THEN @ + 1 ELSE @]
           /\ IF o.end = "lost"
              THEN \* the broker requeues every unacknowledged delivery
                   /\ alerts_q' = unacked \o alerts_q
                   /\ unacked' = <<>>
                   /\ a_state' = "reconnecting"
              ELSE /\ alerts_q' = Tail(alerts_q)
                   /\ unacked' = IF o.acked THEN unacked ELSE Append(unacked, msg)
                   /\ a_state' = AfterHandle(o)

AgentHandle(reply, loss) ==
    /\ a_state = "consuming"
    /\ alerts_q # <<>>
    /\ Len(unacked) < PREFETCH_AGENT
    /\ Delivered(Head(alerts_q), reply, loss,
                 HandleOutcome(Head(alerts_q).body, reply, loss, policy_doc, env))
    /\ UNCHANGED policyVars
    /\ UNCHANGED rulesVars
    /\ UNCHANGED normVars
    /\ UNCHANGED workerVars

\* start_consuming raises a connection error between two deliveries
\* (agent.py 210, 217).
ConnectionLost ==
    /\ a_state = "consuming"
    /\ alerts_q' = unacked \o alerts_q
    /\ unacked' = <<>>
    /\ a_state' = "reconnecting"
    /\ a_count' = [a_count EXCEPT !.lost = @ + 1]
    /\ UNCHANGED <<recs_q, store_alerts, store_recs, a_conn, a_last>>
    /\ UNCHANGED policyVars
    /\ UNCHANGED rulesVars
    /\ UNCHANGED normVars
    /\ UNCHANGED workerVars

\* agent.py 220-225: connect_with_retry, then _setup_consumer.  When every
\* attempt fails, connect_with_retry raises inside the except clause and run
\* ends.
AgentReconnect(fails) ==
    /\ a_state = "reconnecting"
    /\ LET r == connect_with_retry(fails, RETRIES_AGENT)
       IN  /\ a_state' = IF r.ok THEN "consuming" ELSE "crashed"
           /\ a_conn' = IF r.ok THEN setup_consumer(r.conn) ELSE r.conn
    /\ UNCHANGED <<alerts_q, unacked, recs_q, store_alerts, store_recs, a_last, a_count>>
    /\ UNCHANGED policyVars
    /\ UNCHANGED rulesVars
    /\ UNCHANGED normVars
    /\ UNCHANGED workerVars

\* AgentService(Settings()).run() from the start (agent.py 104, 207, 233):
\* connect_with_retry in __init__, whose raise ends the process, then
\* _setup_consumer.
AgentStart(fails) ==
    /\ a_state = "starting"
    /\ LET r == connect_with_retry(fails, RETRIES_AGENT)
       IN  /\ a_state' = IF r.ok THEN "consuming" ELSE "failed"
           /\ a_conn' = IF r.ok THEN setup_consumer(r.conn) ELSE r.conn
    /\ UNCHANGED <<alerts_q, unacked, recs_q, store_alerts, store_recs, a_last, a_count>>
    /\ UNCHANGED policyVars
    /\ UNCHANGED rulesVars
    /\ UNCHANGED normVars
    /\ UNCHANGED workerVars

----------------------------------------------------------------------------
(* The stream worker: FeatureComputer.compute and StreamWorker.handle *)

\* A timestamp "2025-MM-DDTHH:..." as the string tests of derive_step_from_ts
\* see it; t is "missing" when the event has no ts, "num" when ts is no
\* string; hour is -1 when the two characters after "T" are no digits.
\* Ts(day, hour) is a timestamp of August 2025.
NoTs == [t |-> "missing", month |-> 0, day |-> 0, hour |-> 0]
TsOf(month, day, hour) == [t |-> "str", month |-> month, day |-> day, hour |-> hour]
Ts(day, hour) == TsOf(8, day, hour)

\* A transaction event: kind as for alerts.  NoId is an absent key; amount
\* and ts_step are JSON values; ip10 says that str(ip) starts with "10.".
MkTx(txn_id, user_id, nameOrig, merchant, nameDest, amount, ts_step, ts, ip10) ==
    [kind |-> "obj", txn_id |-> txn_id, user_id |-> user_id, nameOrig |-> nameOrig,
     merchant |-> merchant, nameDest |-> nameDest, amount |-> amount,
     ts_step |-> ts_step, ts |-> ts, ip10 |-> ip10]

NoTx == [MkTx(NoId, NoId, NoId, NoId, NoId, Missing, Missing, NoTs, FALSE) EXCEPT !.kind = "none"]
BadTx == [NoTx EXCEPT !.kind = "bad"]
ArrTx == [NoTx EXCEPT !.kind = "arr"]

HISTORY_MAXLEN == 10
UNKNOWN_USER == "u?"
UNKNOWN_MERCHANT == "m?"
UserKeys == {"u1", UNKNOWN_USER}
MerchantKeys == {"m1", UNKNOWN_MERCHANT}

\* deque(maxlen).append
DequeAppend_unbounded(h, x) == Append(h, x)
DequeAppend(h, x) == IF Len(h) >= HISTORY_MAXLEN THEN Append(Tail(h), x) ELSE Append(h, x)

\* FeatureComputer.derive_step_from_ts: only a string with the prefix
\* "2025-08-01T" is parsed, any other gives 0; int() of characters that are
\* no digits raises inside the try and gives 0.
derive_step_from_ts(ts) ==
    IF ts.t = "str" /\ ts.month = 8 /\ ts.day = 1 /\ ts.hour >= 0
    THEN (ts.day - 1) * 24 + ts.hour ELSE 0

\* prepare_paysim.step_to_ts: 2025-08-01T00:00:00 plus step hours, written
\* as "%Y-%m-%dT%H:%M:%SZ"; August has 31 days, September 30.
AUGUST_DAYS == 31
SEPTEMBER_DAYS == 30
step_to_ts(step) ==
    LET d == step \div 24
        h == step % 24
    IN  IF d < AUGUST_DAYS THEN TsOf(8, d + 1, h)
        ELSE IF d < AUGUST_DAYS + SEPTEMBER_DAYS THEN TsOf(9, d - AUGUST_DAYS + 1, h)
        ELSE TsOf(10, d - AUGUST_DAYS - SEPTEMBER_DAYS + 1, h)

\* The history entry that stands for a ts_step that is a non-empty string.
STR_STEP == -1

\* math.log1p in 1/10000 on the amounts used.
AmountVals == {0, 100, 2500}
Log1p == [x \in AmountVals |-> CASE x = 0 -> 0 [] x = 100 -> 46151 [] x = 2500 -> 78244]

\* FeatureComputer.compute(event) on the histories uh, mh.  `or` takes
\* ts_step when it is true: a number other than 0 or a non-empty string
\* (Str).  float(amount) raises before either history is touched; a string
\* step is appended to both histories and then `step % 24` raises.  Feature
\* values are whole numbers, log_amount is held in 1/10000.
compute(event, uh, mh) ==
    LET step == IF event.ts_step.t = "num" /\ event.ts_step.n # 0 THEN event.ts_step.n
                ELSE IF event.ts_step.t = "str" THEN STR_STEP
                ELSE derive_step_from_ts(event.ts)
        amount == GetFloat(event.amount, 0)
        user_id == IF event.user_id = NoId THEN UNKNOWN_USER ELSE event.user_id
        merchant == IF event.merchant = NoId THEN UNKNOWN_MERCHANT ELSE event.merchant
    IN  IF ~GetFloatOk(event.amount)
        THEN [ok |-> FALSE, feats |-> NoMap, user_history |-> uh, merchant_history |-> mh]
        ELSE IF step = STR_STEP
        THEN [ok |-> FALSE, feats |-> NoMap,
              user_history |-> [uh EXCEPT ![user_id] = DequeAppend(@, step)],
              merchant_history |-> [mh EXCEPT ![merchant] = DequeAppend(@, step)]]
        ELSE [ok |-> TRUE,
              feats |-> MapOf(<<[name |-> "amount", value |-> Num(amount)],
                                [name |-> "log_amount",
                                 value |-> Num(Log1p[IF amount < 0 THEN 0 ELSE amount])],
                                [name |-> "hour_mod_24", value |-> Num(step % 24)],
                                [name |-> "user_txn_prev10", value |-> Num(Len(uh[user_id]))],
                                [name |-> "merchant_txn_prev10", value |-> Num(Len(mh[merchant]))],
                                [name |-> "ip_country_mismatch",
                                 value |-> Num(IF event.ip10 THEN 1 ELSE 0)]>>),
              user_history |-> [uh EXCEPT ![user_id] = DequeAppend(@, step)],
              merchant_history |-> [mh EXCEPT ![merchant] = DequeAppend(@, step)]]

\* The value of the feature called name in a feature map, -1 when compute
\* raised and returned none.
FeatureValue(feats, name) ==
    IF \E i \in 1..Len(feats.m) : feats.m[i].name = name
    THEN (CHOOSE x \in {feats.m[i] : i \in 1..Len(feats.m)} : x.name = name).value.n
    ELSE -1

\* No call of compute yet.  ret holds, per entity, the velocity value the
\* last call for that entity returned (-1: none yet), prev what ret was
\* before the last call; log, per entity, the time step of every event for
\* which compute returned, in arrival order.
NoCompute ==
    [n |-> 0, ok |-> FALSE, feats |-> NoMap, event |-> NoTx,
     log |-> [u |-> [k \in UserKeys |-> <<>>], m |-> [k \in MerchantKeys |-> <<>>]],
     user_key |-> UNKNOWN_USER, merchant_key |-> UNKNOWN_MERCHANT,
     ret |-> [u |-> [k \in UserKeys |-> -1], m |-> [k \in MerchantKeys |-> -1]],
     prev |-> [u |-> [k \in UserKeys |-> -1], m |-> [k \in MerchantKeys |-> -1]]]

\* The record of one call compute(event) that returned f, after last.
ComputeCall(event, f, last) ==
    LET uk == IF event.user_id = NoId THEN UNKNOWN_USER ELSE event.user_id
        mk == IF event.merchant = NoId THEN UNKNOWN_MERCHANT ELSE event.merchant
    IN  [n |-> last.n + 1, ok |-> f.ok, feats |-> f.feats, event |-> event,
         log |-> IF f.ok
                 THEN [u |-> [last.log.u EXCEPT
                                 ![uk] = Append(@, f.user_history[uk][Len(f.user_history[uk])])],
                       m |-> [last.log.m EXCEPT
                                 ![mk] = Append(@, f.merchant_history[mk][Len(f.merchant_history[mk])])]]
                 ELSE last.log,
         user_key |-> uk, merchant_key |-> mk,
         ret |-> IF f.ok
                 THEN [u |-> [last.ret.u EXCEPT ![uk] = FeatureValue(f.feats, "user_txn_prev10")],
                       m |-> [last.ret.m EXCEPT
                                 ![mk] = FeatureValue(f.feats, "merchant_txn_prev10")]]
                 ELSE last.ret,
         prev |-> last.ret]

\* What the rule collaborator does with POST /eval: "ok" carries the value
\* of "fired" (a list, or "nonlist"), "error" is any exception of the call.
RulesOk(fired) == [kind |-> "ok", fired |-> ListOf(fired)]
\* "fired" is the string "r1": len() of it is 2.
RulesNonList == [kind |-> "ok", fired |-> [t |-> "str", l |-> <<"r", "1">>]]
RulesError == [kind |-> "error", fired |-> NoList]
\* requests Timeout, a body that is no JSON, a JSON body that is no object:
\* each raises inside the try block of _rules_fired.
RulesTimeout == [kind |-> "timeout", fired |-> NoList]
RulesNonJson == [kind |-> "nonjson", fired |-> NoList]
RulesNonObj == [kind |-> "nonobj", fired |-> NoList]

\* StreamWorker._rules_fired without the isinstance test of line 62.
rules_fired_unchecked(ro) ==
    IF ro.kind = "ok" THEN ro.fired.l ELSE <<>>

\* StreamWorker._rules_fired
rules_fired(ro) ==
    IF ro.kind = "ok" /\ ro.fired.t = "list" THEN ro.fired.l ELSE <<>>

\* What the scoring collaborator does with POST /score: a 200 answer with
\* an object carrying "score", a 200 answer that is no JSON, another status,
\* a refused connection, a connect timeout, a read timeout.
ScoreOk(v) == [kind |-> "ok", score |-> v]
ScoreNonJson == [kind |-> "nonjson", score |-> Missing]
ScoreStatus == [kind |-> "status", score |-> Missing]
ScoreConnError == [kind |-> "conn_error", score |-> Missing]
ScoreConnectTimeout == [kind |-> "connect_timeout", score |-> Missing]
ScoreReadTimeout == [kind |-> "read_timeout", score |-> Missing]

SCORE_INITIAL == 0
SCORE_NON_200 == 100
SCORE_TIMEOUT == 3000
SCORE_UNEXPECTED == 3000

\* worker.py 85 and 92-117.  ConnectTimeout is a ConnectionError and a
\* Timeout: the first except clause takes it.  float() of a null or
\* non-numeric score and response.json() of a body that is no JSON raise
\* into the last clause.
model_score(so) ==
    CASE so.kind = "ok" ->
            IF GetFloatOk(so.score) THEN GetFloat(so.score, 0) ELSE SCORE_UNEXPECTED
      [] so.kind = "status" -> SCORE_NON_200
      [] so.kind \in {"conn_error", "connect_timeout"} -> SCORE_INITIAL
      [] so.kind = "read_timeout" -> SCORE_TIMEOUT
      [] OTHER -> SCORE_UNEXPECTED

NoScoreCall == [kind |-> "none", score |-> Missing]
NoRulesCall == [kind |-> "none", fired |-> NoList]

NoWorkerOutcome ==
    [end |-> "raised", score_called |-> FALSE, score |-> 0, fired |-> <<>>,
     base_dec |-> "none", scores |-> <<>>, alerts |-> <<>>, ack_calls |-> 0, ops |-> <<>>]

\* The collaborator calls and channel operations of a call of handle that
\* runs to its end, in the order the code issues them (worker.py 90, 94,
\* 133, 162, 164).
WorkerOps(escalated) ==
    <<"rules_eval", "model_score", "publish_scores">> \o
    (IF escalated THEN <<"publish_alert">> ELSE <<>>) \o <<"ack">>

\* worker.py 75-76: the ids handle puts in its output.
OutUser(tx) == IF tx.user_id # NoId THEN tx.user_id ELSE tx.nameOrig
OutMerchant(tx) == IF tx.merchant # NoId THEN tx.merchant ELSE tx.nameDest

\* tx.get("amount") as json.dumps writes it: an absent key becomes null.
OutAmount(tx) == IF tx.amount.t = "missing" THEN Null ELSE tx.amount

\* worker.py 145: an alert is published for a step_up or block baseline.
EmitsAlert_always(base_dec) == TRUE
EmitsAlert(base_dec) == base_dec \in {"step_up", "block"}

\* One call of StreamWorker.handle(ch, method, body) on the features f that
\* compute returned.  The except clause of line 69 binds no name, so the
\* print of line 70 raises NameError before the ack of line 71; a decoded
\* value that is no object raises at the first tx.get.
WorkerOutcome(tx, f, so, ro, t, th) ==
    LET fired == rules_fired(ro)
        score == model_score(so)
        base_dec == baseline_decision(score, fired, t, th)
        telemetry == [txn_id |-> tx.txn_id, user_id |-> OutUser(tx),
                      merchant |-> OutMerchant(tx), amount |-> OutAmount(tx),
                      features |-> f.feats, score |-> score, reasons |-> fired]
        alert == MkAlert(tx.txn_id, OutUser(tx), OutMerchant(tx), OutAmount(tx), f.feats,
                         Num(score), ListOf(fired), Num(t), base_dec)
    IN  IF tx.kind # "obj" THEN NoWorkerOutcome
        ELSE IF ~f.ok THEN NoWorkerOutcome
        ELSE [end |-> "returned", score_called |-> TRUE, score |-> score, fired |-> fired,
              base_dec |-> base_dec, scores |-> <<telemetry>>,
              alerts |-> IF EmitsAlert(base_dec) THEN <<alert>> ELSE <<>>,
              ack_calls |-> 1, ops |-> WorkerOps(EmitsAlert(base_dec))]

NoWorkerLast ==
    [n |-> 0, mid |-> 0, tx |-> NoTx, so |-> NoScoreCall, ro |-> NoRulesCall,
     before |-> [u |-> [k \in UserKeys |-> <<>>], m |-> [k \in MerchantKeys |-> <<>>]],
     out |-> [NoWorkerOutcome EXCEPT !.end = "none"]]

RETRIES_WORKER == 30
PREFETCH_WORKER == 100

\* The queues RabbitClient.__init__ declares on the attempt that succeeds
\* (messaging.py 22-23) and StreamWorker.__init__ declares again (worker.py 36).
WorkerDeclares == <<Q_TRANSACTIONS, Q_SCORES, Q_ALERTS>>

\* RabbitClient(host): [ok |-> FALSE] is the raise of messaging.py 29.
RabbitClientInit(fails, retries) ==
    LET r == ConnectLoop(1, fails, retries)
    IN  [ok |-> r.ok,
         conn |-> IF r.ok
                  THEN [NoConn EXCEPT !.fails = fails, !.attempts = r.attempts,
                                      !.declared = SeqToSet(WorkerDeclares),
                                      !.ndeclare = Len(WorkerDeclares)]
                  ELSE [NoConn EXCEPT !.fails = fails, !.attempts = r.attempts]]

\* RabbitClient.declare(*queues)
declare(conn, queues) ==
    [conn EXCEPT !.declared = @ \cup SeqToSet(queues), !.ndeclare = @ + Len(queues)]

\* RabbitClient.consume(queue, callback) up to start_consuming.
consume(conn, queue) ==
    [conn EXCEPT !.consumer = TRUE, !.prefetch = PREFETCH_WORKER, !.used = @ \cup {queue}]

\* StreamWorker.__init__ with an empty transactions.raw, and run.
WorkerIdle ==
    /\ tx_q = <<>>
    /\ w_unacked = <<>>
    /\ scores_q = <<>>
    /\ user_history = [k \in UserKeys |-> <<>>]
    /\ merchant_history = [k \in MerchantKeys |-> <<>>]
    /\ w_state = "consuming"
    /\ w_conn = consume(declare(RabbitClientInit(0, RETRIES_WORKER).conn, WorkerDeclares),
                        Q_TRANSACTIONS)
    /\ w_last = NoWorkerLast
    /\ f_last = NoCompute
    /\ w_count = [sent |-> 0, handled |-> 0, lost |-> 0]

\* A producer publishes a body to transactions.raw (publisher.py).
PublishTx(body) ==
    /\ tx_q' = Append(tx_q, [mid |-> w_count.sent + 1, body |-> body,
                              delivery_mode |-> DELIVERY_MODE_DEFAULT])
    /\ w_count' = [w_count EXCEPT !.sent = @ + 1]
    /\ UNCHANGED <<w_unacked, scores_q, user_history, merchant_history, w_state, w_conn,
                   w_last, f_last>>
    /\ UNCHANGED policyVars
    /\ UNCHANGED rulesVars
    /\ UNCHANGED normVars
    /\ UNCHANGED agentVars

\* The broker delivers the head of transactions.raw and handle runs on it.
\* An exception leaving handle leaves start_consuming, consume and run
\* (worker.py 166-168, messaging.py 35-38): the process ends and the broker
\* requeues what it had not acknowledged.
WorkerHandle(so, ro) ==
    /\ w_state = "consuming"
    /\ tx_q # <<>>
    /\ Len(w_unacked) < PREFETCH_WORKER
    /\ LET msg == Head(tx_q)
           tx == msg.body
           f == IF tx.kind = "obj" THEN compute(tx, user_history, merchant_history)
                ELSE [ok |-> FALSE, feats |-> NoMap, user_history |-> user_history,
                      merchant_history |-> merchant_history]
           o == WorkerOutcome(tx, f, so, ro, tau, tau_high)
       IN  /\ w_last' = [n |-> w_count.handled + 1, mid |-> msg.mid, tx |-> tx,
                         so |-> IF o.score_called THEN so ELSE NoScoreCall,
                         ro |-> IF o.score_called THEN ro ELSE NoRulesCall,
                         before |-> [u |-> user_history, m |-> merchant_history],
                         out |-> o]
           /\ user_history' = f.user_history
           /\ merchant_history' = f.merchant_history
           /\ f_last' = IF tx.kind = "obj" THEN ComputeCall(tx, f, f_last) ELSE f_last
           /\ scores_q' = scores_q \o o.scores
           /\ alerts_q' = alerts_q \o [i \in 1..Len(o.alerts) |->
                                          [mid |-> a_count.sent + i, body |-> o.alerts[i],
                                           delivery_mode |-> DELIVERY_MODE_DEFAULT]]
           /\ w_conn' = [w_conn EXCEPT !.used =
                            @ \cup (IF o.scores # <<>> THEN {Q_SCORES} ELSE {})
                              \cup (IF o.alerts # <<>> THEN {Q_ALERTS} ELSE {})]
           /\ a_count' = [a_count EXCEPT !.sent = @ + Len(o.alerts)]
           /\ w_count' = [w_count EXCEPT !.handled = @ + 1]
           /\ IF o.end = "raised"
              THEN /\ tx_q' = w_unacked \o tx_q
                   /\ w_unacked' = <<>>
                   /\ w_state' = "crashed"
              ELSE /\ tx_q' = Tail(tx_q)
                   /\ w_unacked' = w_unacked
                   /\ w_state' = "consuming"
    /\ UNCHANGED <<unacked, recs_q, store_alerts, store_recs, a_state, a_conn, a_last>>
    /\ UNCHANGED policyVars
    /\ UNCHANGED rulesVars
    /\ UNCHANGED normVars

\* One call compute(event) on the worker's FeatureComputer.
Compute(event) ==
    /\ LET f == compute(event, user_history, merchant_history)
       IN  /\ user_history' = f.user_history
           /\ merchant_history' = f.merchant_history
           /\ f_last' = ComputeCall(event, f, f_last)
    /\ UNCHANGED <<tx_q, w_unacked, scores_q, w_state, w_conn, w_last, w_count>>
    /\ UNCHANGED policyVars
    /\ UNCHANGED rulesVars
    /\ UNCHANGED normVars
    /\ UNCHANGED agentVars

\* StreamWorker(Settings()).run() from the start (worker.py 35-36, 168,
\* 171): RabbitClient.__init__, whose raise ends the process, declare, then
\* consume.
WorkerStart(fails) ==
    /\ w_state = "starting"
    /\ LET r == RabbitClientInit(fails, RETRIES_WORKER)
       IN  /\ w_state' = IF r.ok THEN "consuming" ELSE "failed"
           /\ w_conn' = IF r.ok THEN consume(declare(r.conn, WorkerDeclares), Q_TRANSACTIONS)
                         ELSE r.conn
    /\ UNCHANGED <<tx_q, w_unacked, scores_q, user_history, merchant_history, w_last,
                   f_last, w_count>>
    /\ UNCHANGED policyVars
    /\ UNCHANGED rulesVars
    /\ UNCHANGED normVars
    /\ UNCHANGED agentVars

\* start_consuming raises a connection error (messaging.py 38): nothing in
\* consume or in StreamWorker.run (worker.py 166-168) catches it, so run
\* ends with it; the broker requeues what was not acknowledged.
WorkerConnectionLost ==
    /\ w_state = "consuming"
    /\ tx_q' = w_unacked \o tx_q
    /\ w_unacked' = <<>>
    /\ w_state' = "crashed"
    /\ w_count' = [w_count EXCEPT !.lost = @ + 1]
    /\ UNCHANGED <<scores_q, user_history, merchant_history, w_conn, w_last, f_last>>
    /\ UNCHANGED policyVars
    /\ UNCHANGED rulesVars
    /\ UNCHANGED normVars
    /\ UNCHANGED agentVars

\* What a broker restart keeps of a durable queue: the messages published
\* with delivery mode 2.
Persistent(q) == SelectSeq(q, LAMBDA m : m.delivery_mode = DELIVERY_MODE_PERSISTENT)

\* The broker restarts: every connection is lost, the unacknowledged
\* deliveries return to their queues, and each durable queue keeps its
\* persistent messages only.  fraud.scores is published by
\* RabbitClient.publish, without a delivery mode.
BrokerRestart ==
    /\ alerts_q' = Persistent(unacked \o alerts_q)
    /\ unacked' = <<>>
    /\ recs_q' = Persistent(recs_q)
    /\ tx_q' = Persistent(w_unacked \o tx_q)
    /\ w_unacked' = <<>>
    /\ scores_q' = <<>>
    /\ a_state' = IF a_state = "consuming" THEN "reconnecting" ELSE a_state
    /\ w_state' = IF w_state = "consuming" THEN "crashed" ELSE w_state
    /\ a_count' = [a_count EXCEPT !.lost = @ + 1]
    /\ w_count' = [w_count EXCEPT !.lost = @ + 1]
    /\ UNCHANGED <<store_alerts, store_recs, a_conn, a_last>>
    /\ UNCHANGED <<user_history, merchant_history, w_conn, w_last, f_last>>
    /\ UNCHANGED policyVars
    /\ UNCHANGED rulesVars
    /\ UNCHANGED normVars

----------------------------------------------------------------------------
(* The rules service: _safe_eval and RulesEngine.eval *)

\* A node of the tree ast.parse returns.  type is the node class; ops the
\* operator and context nodes below it (ast.Gt, ast.Add, ast.Load, ...),
\* which ast.walk visits as nodes of their own; name an identifier; val a
\* constant; kids the operand nodes in source order.
NoVal == [t |-> "none", n |-> 0]
Node(type, ops, name, val, kids) ==
    [type |-> type, ops |-> ops, name |-> name, val |-> val, kids |-> kids]

Name(id) == Node("Name", <<"Load">>, id, NoVal, <<>>)
Const(v) == Node("Constant", <<>>, "", v, <<>>)
BinOp(l, op, r) == Node("BinOp", <<op>>, "", NoVal, <<l, r>>)
UnaryOp(op, x) == Node("UnaryOp", <<op>>, "", NoVal, <<x>>)
Compare(l, ops, rs) == Node("Compare", ops, "", NoVal, <<l>> \o rs)
BoolOp(op, values) == Node("BoolOp", <<op>>, "", NoVal, values)
Attribute(x, attr) == Node("Attribute", <<"Load">>, attr, NoVal, <<x>>)
Call(f, args) == Node("Call", <<>>, "", NoVal, <<f>> \o args)
Subscript(x, i) == Node("Subscript", <<"Load">>, "", NoVal, <<x, i>>)
IfExp(test, a, b) == Node("IfExp", <<>>, "", NoVal, <<test, a, b>>)
Lambda(body) == Node("Lambda", <<"arguments">>, "", NoVal, <<body>>)
TupleNode(elts) == Node("Tuple", <<"Load">>, "", NoVal, elts)
ListNode(elts) == Node("List", <<"Load">>, "", NoVal, elts)

\* Constants: a string is held by an id, 0 for the empty string.
StrConst(id) == [t |-> "str", n |-> id]
NoneConst == [t |-> "null", n |-> 0]

\* rules_engine.py 5-8
ALLOWED ==
    {"Expression", "BoolOp", "BinOp", "UnaryOp", "Compare", "Name", "Load", "Constant",
     "And", "Or", "Add", "Sub", "Mult", "Div", "Mod", "Pow",
     "Eq", "NotEq", "Lt", "LtE", "Gt", "GtE"}

\* rules_engine.py 13, the second test
REFUSED == {"Attribute", "Call", "Subscript"}

\* The classes of the nodes ast.walk yields at and below n.
RECURSIVE NodeTypes(_)
NodeTypes(n) ==
    {n.type} \cup {n.ops[i] : i \in 1..Len(n.ops)} \cup
    UNION {NodeTypes(n.kids[i]) : i \in 1..Len(n.kids)}

\* rules_engine.py 12-14 on the Expression node wrapping n: TRUE when no
\* ValueError is raised.
Validate_none(n) == TRUE
Validate(n) ==
    \A t \in {"Expression"} \cup NodeTypes(n) : t \in ALLOWED /\ t \notin REFUSED

IsNumber(v) == v.t \in {"num", "bool"}
Truthy(v) == IF v.t = "null" THEN FALSE ELSE v.n # 0

EvalErr == [ok |-> FALSE, v |-> NoVal]
EvalOk(v) == [ok |-> TRUE, v |-> v]

RECURSIVE Power(_, _)
Power(a, b) == IF b = 0 THEN 1 ELSE a * Power(a, b - 1)

\* A binary arithmetic operator on two values.  The operands of every
\* condition evaluated here are numbers or booleans, divisions are exact
\* and exponents are not negative; any other operand raises TypeError, a
\* zero divisor ZeroDivisionError.
Arith(op, a, b) ==
    IF ~IsNumber(a) \/ ~IsNumber(b) THEN EvalErr
    ELSE CASE op = "Add" -> EvalOk(Num(a.n + b.n))
           [] op = "Sub" -> EvalOk(Num(a.n - b.n))
           [] op = "Mult" -> EvalOk(Num(a.n * b.n))
           [] op = "Div" -> IF b.n = 0 THEN EvalErr ELSE EvalOk(Num(a.n \div b.n))
           [] op = "Mod" -> IF b.n = 0 THEN EvalErr ELSE EvalOk(Num(a.n % b.n))
           [] op = "Pow" -> IF b.n < 0 THEN EvalErr ELSE EvalOk(Num(Power(a.n, b.n)))
           [] OTHER -> EvalErr

\* One comparison.  == and != are defined between any two values (a
\* boolean equals the number it is); an ordering with an operand that is
\* no number raises TypeError.
Same(a, b) ==
    IF IsNumber(a) /\ IsNumber(b) THEN a.n = b.n ELSE a.t = b.t /\ a.n = b.n
Cmp(op, a, b) ==
    CASE op = "Eq" -> EvalOk(BoolV(Same(a, b)))
      [] op = "NotEq" -> EvalOk(BoolV(~Same(a, b)))
      [] ~IsNumber(a) \/ ~IsNumber(b) -> EvalErr
      [] op = "Lt" -> EvalOk(BoolV(a.n < b.n))
      [] op = "LtE" -> EvalOk(BoolV(a.n <= b.n))
      [] op = "Gt" -> EvalOk(BoolV(a.n > b.n))
      [] op = "GtE" -> EvalOk(BoolV(a.n >= b.n))
      [] OTHER -> EvalErr

\* eval(compile(node), {"__builtins__": {}}, ctx) on a validated tree: a
\* name outside ctx raises NameError; and/or return the operand that
\* decides them and evaluate no operand after it; a chain a < b < c stops
\* at the first comparison that is false.
RECURSIVE EvalNode(_, _)
RECURSIVE EvalBool(_, _, _, _)
RECURSIVE EvalChain(_, _, _, _)

EvalBool(op, values, i, ctx) ==
    LET x == EvalNode(values[i], ctx)
    IN  IF ~x.ok THEN EvalErr
        ELSE IF i = Len(values) THEN x
        ELSE IF op = "And" /\ ~Truthy(x.v) THEN x
        ELSE IF op = "Or" /\ Truthy(x.v) THEN x
        ELSE EvalBool(op, values, i + 1, ctx)

EvalChain(left, n, i, ctx) ==
    LET r == EvalNode(n.kids[i + 1], ctx)
        c == Cmp(n.ops[i], left, r.v)
    IN  IF ~r.ok THEN EvalErr
        ELSE IF ~c.ok THEN EvalErr
        ELSE IF i = Len(n.ops) THEN c
        ELSE IF ~Truthy(c.v) THEN c
        ELSE EvalChain(r.v, n, i + 1, ctx)

EvalNode(n, ctx) ==
    CASE n.type = "Constant" -> EvalOk(n.val)
      [] n.type = "Name" ->
            IF n.name \in DOMAIN ctx THEN EvalOk(Num(ctx[n.name])) ELSE EvalErr
      [] n.type = "BinOp" ->
            LET a == EvalNode(n.kids[1], ctx)
                b == EvalNode(n.kids[2], ctx)
            IN  IF ~a.ok \/ ~b.ok THEN EvalErr ELSE Arith(n.ops[1], a.v, b.v)
      [] n.type = "BoolOp" -> EvalBool(n.ops[1], n.kids, 1, ctx)
      [] n.type = "Compare" ->
            LET l == EvalNode(n.kids[1], ctx)
            IN  IF ~l.ok THEN EvalErr ELSE EvalChain(l.v, n, 1, ctx)
      [] OTHER -> EvalErr

\* The "if" of a rule as yaml.safe_load returns it.  kind is "missing" (no
\* key: the default ""), "empty" (""), "syntax" (a value ast.parse
\* refuses) or "expr" (a string that parses to ast).
NoAst == Const(NoVal)
CondExpr(ast) == [kind |-> "expr", ast |-> ast]
CondOther(kind) == [kind |-> kind, ast |-> NoAst]

\* _safe_eval(expr, ctx): parse, walk, evaluate, bool().  stage tells
\* where the call ended: parse_error, rejected (the ValueError of the
\* walk), eval_error (eval raised) or evaluated with its value.
safe_eval(cond, ctx) ==
    IF cond.kind # "expr" THEN [stage |-> "parse_error", value |-> FALSE]
    ELSE IF ~Validate(cond.ast) THEN [stage |-> "rejected", value |-> FALSE]
    ELSE LET e == EvalNode(cond.ast, ctx)
         IN  IF ~e.ok THEN [stage |-> "eval_error", value |-> FALSE]
             ELSE [stage |-> "evaluated", value |-> Truthy(e.v)]

\* One iteration of the loop of RulesEngine.eval on a rule that is a
\* mapping: `cond and _safe_eval(cond, feats)` inside try/except Exception.
RuleStage_lenient(r, feats) ==
    IF r.cond.kind \in {"missing", "empty"} THEN "skipped"
    ELSE LET s == safe_eval(r.cond, feats)
         IN  IF s.stage = "eval_error" THEN "fired"
             ELSE IF s.stage # "evaluated" THEN s.stage
             ELSE IF s.value THEN "fired" ELSE "false"
RuleStage(r, feats) ==
    IF r.cond.kind \in {"missing", "empty"} THEN "skipped"
    ELSE LET s == safe_eval(r.cond, feats)
         IN  IF s.stage # "evaluated" THEN s.stage
             ELSE IF s.value THEN "fired" ELSE "false"

\* RulesEngine.eval(feats): r.get(...) is outside the try, so an entry that
\* is no mapping raises out of the call.
RECURSIVE RulesEngineEval(_, _, _, _, _)
RulesEngineEval(rules, i, feats, fired, stages) ==
    IF i > Len(rules) THEN [raised |-> FALSE, fired |-> fired, stages |-> stages]
    ELSE IF ~rules[i].isdict
         THEN [raised |-> TRUE, fired |-> <<>>, stages |-> Append(stages, "raised")]
    ELSE LET st == RuleStage(rules[i], feats)
         IN  RulesEngineEval(rules, i + 1, feats,
                             IF st = "fired" THEN Append(fired, rules[i].id) ELSE fired,
                             Append(stages, st))

NoFeats == [amount |-> 0, user_txn_prev10 |-> 0]
NoEval == [called |-> FALSE, feats |-> NoFeats, raised |-> FALSE, fired |-> <<>>,
           stages |-> <<>>]

RulesIdle ==
    /\ r_rules = <<>>
    /\ r_last = NoEval

\* POST /eval: one call of engine.eval(feats).
RulesEval(feats) ==
    /\ LET r == RulesEngineEval(r_rules, 1, feats, <<>>, <<>>)
       IN  r_last' = [called |-> TRUE, feats |-> feats, raised |-> r.raised,
                      fired |-> r.fired, stages |-> r.stages]
    /\ UNCHANGED r_rules
    /\ UNCHANGED normVars
    /\ UNCHANGED policyVars
    /\ UNCHANGED agentVars
    /\ UNCHANGED workerVars

----------------------------------------------------------------------------
(* The decision policy on its own: the worker's decision for a score and a *)
(* fired-rule list, and the agent's fallback on the alert built from it.   *)

ProbeFeatures ==
    MapOf(<<[name |-> "amount", value |-> Num(100)],
            [name |-> "log_amount", value |-> Num(46151)],
            [name |-> "hour_mod_24", value |-> Num(1)],
            [name |-> "user_txn_prev10", value |-> Num(0)]>>)

NoEntry ==
    [valid |-> FALSE, score |-> 0, rules |-> <<>>, base_dec |-> "none",
     emitted |-> FALSE, fb_done |-> FALSE, fb |-> Raised]

\* worker.py 129-130 and 145-162 for one scored transaction.
WorkerDecide(score, fired) ==
    /\ probe.n < 2
    /\ LET d == baseline_decision(score, fired, tau, tau_high)
       IN  probe' = [n |-> probe.n + 1,
                     prev |-> [probe.cur EXCEPT !.fb_done = FALSE, !.fb = Raised],
                     cur |-> [valid |-> TRUE, score |-> score, rules |-> fired,
                              base_dec |-> d, emitted |-> d \in {"step_up", "block"},
                              fb_done |-> FALSE, fb |-> Raised]]
    /\ UNCHANGED <<policy_doc, env, tau, tau_high>>
    /\ UNCHANGED agentVars
    /\ UNCHANGED workerVars
    /\ UNCHANGED rulesVars
    /\ UNCHANGED normVars

\* agent.py 110-132 on the alert the worker emitted for the last decision.
AgentFallback ==
    /\ probe.cur.valid /\ probe.cur.emitted /\ ~probe.cur.fb_done
    /\ LET c == probe.cur
           alert == MkAlert("t1", "u1", "m1", Num(100), ProbeFeatures, Num(c.score),
                            ListOf(c.rules), Num(tau), c.base_dec)
       IN  probe' = [probe EXCEPT !.cur.fb_done = TRUE,
                                  !.cur.fb = policy_fallback(alert, policy_doc)]
    /\ UNCHANGED <<policy_doc, env, tau, tau_high>>
    /\ UNCHANGED agentVars
    /\ UNCHANGED workerVars
    /\ UNCHANGED rulesVars
    /\ UNCHANGED normVars

InitPolicy ==
    /\ policy_doc \in PolicyDocs
    /\ env \in PolicyEnvs
    /\ tau = WorkerThresholds(policy_doc, env)[1]
    /\ tau_high = WorkerThresholds(policy_doc, env)[2]
    /\ probe = [n |-> 0, prev |-> NoEntry, cur |-> NoEntry]
    /\ RulesIdle
    /\ NormIdle
    /\ AgentIdle
    /\ WorkerIdle

NextPolicy ==
    \/ \E score \in ScoreVals, fired \in RuleLists : WorkerDecide(score, fired)
    \/ AgentFallback

SpecPolicy == InitPolicy /\ [][NextPolicy]_vars

----------------------------------------------------------------------------
(* The agent under arbitrary alerts, backend replies and connection losses *)

BadBody == [NoAlert EXCEPT !.kind = "bad"]
ArrBody == [NoAlert EXCEPT !.kind = "arr"]

\* An alert as the worker builds it under the default thresholds.
WAlert(txn_id, score, fired) ==
    MkAlert(txn_id, "u1", "m1", Num(100), ProbeFeatures, Num(score), ListOf(fired),
            Num(DEFAULT_TAU), baseline_decision(score, fired, DEFAULT_TAU, DEFAULT_TAU_HIGH))

\* Bodies a consumer of alerts.high_risk can be handed: worker alerts, the
\* same with a field absent, null or of another type, a JSON value that is
\* no object, and a body that is not JSON.
AlertBodies ==
    LET base == WAlert("t2", 8000, <<"r1">>)
    IN  {WAlert("t1", 5, <<>>), WAlert("t1", 10, <<"r1">>), WAlert("t1", 11, <<>>),
         WAlert("t1", 8000, <<"r1">>), WAlert("t2", 9500, <<"r1", "r2">>),
         [base EXCEPT !.amount = Null],
         [base EXCEPT !.score = Null],
         [base EXCEPT !.score = Missing],
         [base EXCEPT !.threshold = Str],
         [base EXCEPT !.reasons = NullList],
         [base EXCEPT !.features = StrMap],
         [base EXCEPT !.features = MapOf(<<[name |-> "channel", value |-> Str],
                                           [name |-> "amount", value |-> Num(100)]>>)],
         [base EXCEPT !.features = NoMap, !.reasons = NoList],
         BadBody, ArrBody}

ValidReply ==
    LlmReply("obj", "block", "str", "list",
             <<KsItem(TRUE, "amount", Num(100)), KsItem(TRUE, "is_new_device", BoolV(TRUE))>>,
             "list", <<"manual_review_queue">>)

\* A reply whose key signals have values that are no number: one named
\* after a feature of the alert, one after a fired rule, one after neither.
UnvaluedReply ==
    [ValidReply EXCEPT !.ks = <<KsItem(TRUE, "amount", Str), KsItem(TRUE, "r1", Str),
                                KsItem(TRUE, "velocity", Str)>>]

LlmReplies ==
    {LlmError, LlmNonJson, LlmNonObj, ValidReply, UnvaluedReply,
     [ValidReply EXCEPT !.decision = "deny"],
     [ValidReply EXCEPT !.rationale = "missing"],
     [ValidReply EXCEPT !.ks_t = "nonlist", !.ks = <<>>],
     [ValidReply EXCEPT !.ks_t = "missing", !.ks = <<>>],
     [ValidReply EXCEPT !.decision = "missing"],
     [ValidReply EXCEPT !.act_t = "missing", !.actions = <<>>],
     [ValidReply EXCEPT !.act_t = "nonlist", !.actions = <<>>]}

AgentDocs ==
    {[kind |-> "absent", tau |-> Missing, tau_high |-> Missing],
     [kind |-> "obj", tau |-> Num(5000), tau_high |-> Missing]}

AgentEnvs == {DefaultEnv, [DefaultEnv EXCEPT !.FALLBACK_ENABLE = FALSE]}

\* Deliveries explored one at a time.
MaxDeliveries == 1

InitHandle ==
    /\ policy_doc \in AgentDocs
    /\ env \in AgentEnvs
    /\ tau = WorkerThresholds(policy_doc, env)[1]
    /\ tau_high = WorkerThresholds(policy_doc, env)[2]
    /\ probe = [n |-> 0, prev |-> NoEntry, cur |-> NoEntry]
    /\ RulesIdle
    /\ NormIdle
    /\ AgentIdle
    /\ WorkerIdle

NextHandle ==
    \/ \E body \in AlertBodies : a_count.sent < MaxDeliveries /\ PublishAlert(body)
    \/ \E reply \in LlmReplies : AgentHandle(reply, "none")

\* Every kind of alert body and backend reply, the connection staying up.
SpecHandle == InitHandle /\ [][NextHandle]_vars

----------------------------------------------------------------------------
(* The agent's run loop: deliveries, connection losses, redelivery *)

MaxAlerts == 2
MaxLosses == 1

LossPoints == {"none", "publish", "ack"}

RunBodies ==
    {WAlert("t1", 8000, <<"r1">>), WAlert("t1", 9500, <<"r1", "r2">>), WAlert("t2", 5, <<"r1">>),
     [WAlert("t2", 8000, <<"r1">>) EXCEPT !.amount = Null], BadBody}

RunReplies == {LlmError, ValidReply}

InitAgent ==
    /\ policy_doc = [kind |-> "absent", tau |-> Missing, tau_high |-> Missing]
    /\ env \in AgentEnvs
    /\ tau = WorkerThresholds(policy_doc, env)[1]
    /\ tau_high = WorkerThresholds(policy_doc, env)[2]
    /\ probe = [n |-> 0, prev |-> NoEntry, cur |-> NoEntry]
    /\ RulesIdle
    /\ NormIdle
    /\ AgentIdle
    /\ WorkerIdle

NextAgent ==
    \/ \E body \in RunBodies : a_count.sent < MaxAlerts /\ PublishAlert(body)
    \/ \E reply \in RunReplies, loss \in LossPoints :
          /\ loss # "none" => a_count.lost < MaxLosses
          /\ AgentHandle(reply, loss)
    \/ a_count.lost < MaxLosses /\ ConnectionLost
    \/ \E fails \in {0, RETRIES_AGENT} : AgentReconnect(fails)

SpecAgent == InitAgent /\ [][NextAgent]_vars

----------------------------------------------------------------------------
(* The stream worker under arbitrary transactions and collaborator answers *)

TxBodies ==
    LET base == MkTx("t1", "u1", NoId, "m1", NoId, Num(100), Missing, Ts(1, 5), FALSE)
    IN  {base,
         MkTx("t2", NoId, "C1", NoId, "M1", Num(2500), Num(25), NoTs, TRUE),
         [base EXCEPT !.amount = Missing],
         [base EXCEPT !.amount = Null],
         BadTx, ArrTx}

ScoreOutcomes ==
    {ScoreOk(Num(2000)), ScoreOk(Num(8000)), ScoreOk(Num(9500)), ScoreOk(Missing),
     ScoreOk(Null), ScoreNonJson, ScoreStatus, ScoreConnError, ScoreConnectTimeout,
     ScoreReadTimeout}

RulesOutcomes ==
    {RulesOk(<<>>), RulesOk(<<"r1">>), RulesOk(<<"r1", "r2">>), RulesNonList, RulesError,
     RulesTimeout, RulesNonJson, RulesNonObj}

WorkerEnvs == {DefaultEnv, [DefaultEnv EXCEPT !.ALERT_THRESHOLD = 2000]}

\* Transactions explored one at a time.
MaxTx == 1

InitWorker ==
    /\ policy_doc = [kind |-> "absent", tau |-> Missing, tau_high |-> Missing]
    /\ env \in WorkerEnvs
    /\ tau = WorkerThresholds(policy_doc, env)[1]
    /\ tau_high = WorkerThresholds(policy_doc, env)[2]
    /\ probe = [n |-> 0, prev |-> NoEntry, cur |-> NoEntry]
    /\ RulesIdle
    /\ NormIdle
    /\ AgentIdle
    /\ WorkerIdle

NextWorker ==
    \/ \E body \in TxBodies : w_count.sent < MaxTx /\ PublishTx(body)
    \/ \E so \in ScoreOutcomes, ro \in RulesOutcomes : WorkerHandle(so, ro)

SpecWorker == InitWorker /\ [][NextWorker]_vars

----------------------------------------------------------------------------
(* The two consumers together: transactions in, recommendations out *)

PipeTx ==
    {MkTx("t1", "u1", NoId, "m1", NoId, Num(100), Missing, Ts(1, 5), FALSE),
     MkTx("t2", NoId, "C1", NoId, "M1", Num(2500), Num(25), NoTs, TRUE),
     BadTx}

PipeScores == {ScoreOk(Num(2000)), ScoreOk(Num(8000)), ScoreReadTimeout}
PipeRules == {RulesOk(<<>>), RulesOk(<<"r1">>)}

InitPipeline ==
    /\ policy_doc = [kind |-> "absent", tau |-> Missing, tau_high |-> Missing]
    /\ env = DefaultEnv
    /\ tau = WorkerThresholds(policy_doc, env)[1]
    /\ tau_high = WorkerThresholds(policy_doc, env)[2]
    /\ probe = [n |-> 0, prev |-> NoEntry, cur |-> NoEntry]
    /\ RulesIdle
    /\ NormIdle
    /\ AgentIdle
    /\ WorkerIdle

NextPipeline ==
    \/ \E body \in PipeTx : w_count.sent < MaxTx /\ PublishTx(body)
    \/ \E so \in PipeScores, ro \in PipeRules : WorkerHandle(so, ro)
    \/ a_count.sent < MaxAlerts /\ PublishAlert(BadBody)
    \/ \E reply \in RunReplies, loss \in LossPoints :
          /\ loss # "none" => a_count.lost < MaxLosses
          /\ AgentHandle(reply, loss)
    \/ \E fails \in {0, RETRIES_AGENT} : AgentReconnect(fails)

SpecPipeline == InitPipeline /\ [][NextPipeline]_vars

----------------------------------------------------------------------------
(* Both consumers with the connection staying up, deliveries being fair *)

\* Transactions and alerts of which one makes handle raise (amount null:
\* float(None) in compute, worker.py 82, and in upsert_alert, agent.py 154),
\* one is not JSON, the others are well-formed.
LiveTx ==
    {MkTx("t1", "u1", NoId, "m1", NoId, Num(100), Missing, Ts(1, 5), FALSE),
     MkTx("t2", "u1", NoId, "m1", NoId, Null, Missing, Ts(1, 5), FALSE),
     BadTx}

LiveAlerts ==
    {WAlert("t1", 8000, <<"r1">>),
     [WAlert("t2", 8000, <<"r1">>) EXCEPT !.amount = Null],
     BadBody}

\* pika hands over a ready message whenever the consumer is in
\* start_consuming, has room in its prefetch window and the connection is up.
WorkerDelivery == \E so \in PipeScores, ro \in PipeRules : WorkerHandle(so, ro)
AgentDelivery == \E reply \in RunReplies : AgentHandle(reply, "none")

NextLive ==
    \/ \E body \in LiveTx : w_count.sent < MaxTx /\ PublishTx(body)
    \/ WorkerDelivery
    \/ \E body \in LiveAlerts : a_count.sent < MaxAlerts /\ PublishAlert(body)
    \/ AgentDelivery

SpecLive ==
    InitPipeline /\ [][NextLive]_vars /\ WF_vars(WorkerDelivery) /\ WF_vars(AgentDelivery)

----------------------------------------------------------------------------
(* Worker alerts with scores around MIN_SCORE_FOR_LLM, handled by the agent *)

\* Scores below, at and above MIN_SCORE_FOR_LLM, a high score, a failed
\* scoring call (score 0.0); no, one and two fired rules.
ShortScores ==
    {ScoreOk(Num(5)), ScoreOk(Num(8)), ScoreOk(Num(DEFAULT_MIN_SCORE_FOR_LLM)),
     ScoreOk(Num(DEFAULT_MIN_SCORE_FOR_LLM + 1)), ScoreOk(Num(8000)), ScoreConnError}
ShortRules == {RulesOk(<<>>), RulesOk(<<"r1">>), RulesOk(<<"r1", "r2">>)}

\* The worker's ALERT_THRESHOLD at its default or at 0.0005, with and
\* without a policy document: both services then hold the same thresholds
\* or different ones, and tau lies above or below MIN_SCORE_FOR_LLM.
ShortEnvs == {DefaultEnv, [DefaultEnv EXCEPT !.ALERT_THRESHOLD = 5]}
ShortDocs ==
    AgentDocs \cup {[kind |-> "obj", tau |-> Num(5), tau_high |-> Missing]}

InitShort ==
    /\ policy_doc \in ShortDocs
    /\ env \in ShortEnvs
    /\ tau = WorkerThresholds(policy_doc, env)[1]
    /\ tau_high = WorkerThresholds(policy_doc, env)[2]
    /\ probe = [n |-> 0, prev |-> NoEntry, cur |-> NoEntry]
    /\ RulesIdle
    /\ NormIdle
    /\ AgentIdle
    /\ WorkerIdle

NextShort ==
    \/ w_count.sent < MaxTx /\
          PublishTx(MkTx("t1", "u1", NoId, "m1", NoId, Num(100), Missing, Ts(1, 5), FALSE))
    \/ \E so \in ShortScores, ro \in ShortRules : WorkerHandle(so, ro)
    \/ \E reply \in RunReplies : AgentHandle(reply, "none")

SpecShort == InitShort /\ [][NextShort]_vars

\* The agent alone: alerts on which handle raises (amount null in
\* upsert_alert; features that are no map in policy_fallback), runs to the
\* end or drops the body.
SurviveAlerts ==
    LiveAlerts \cup {WAlert("t2", 5, <<>>),
                     [WAlert("t1", 8000, <<"r1">>) EXCEPT !.features = StrMap]}

NextSurvive ==
    \/ \E body \in SurviveAlerts : a_count.sent < MaxAlerts /\ PublishAlert(body)
    \/ AgentDelivery

SpecSurvive == InitPipeline /\ [][NextSurvive]_vars /\ WF_vars(AgentDelivery)

----------------------------------------------------------------------------
(* Both services from their start: connects, losses, broker restarts *)

\* Both processes before their constructors have run.
Starting ==
    /\ alerts_q = <<>>
    /\ unacked = <<>>
    /\ recs_q = <<>>
    /\ store_alerts = [id \in TxnIds |-> <<>>]
    /\ store_recs = [id \in TxnIds |-> <<>>]
    /\ a_state = "starting"
    /\ a_conn = NoConn
    /\ a_last = NoLast
    /\ a_count = [sent |-> 0, handled |-> 0, lost |-> 0]
    /\ tx_q = <<>>
    /\ w_unacked = <<>>
    /\ scores_q = <<>>
    /\ user_history = [k \in UserKeys |-> <<>>]
    /\ merchant_history = [k \in MerchantKeys |-> <<>>]
    /\ w_state = "starting"
    /\ w_conn = NoConn
    /\ w_last = NoWorkerLast
    /\ f_last = NoCompute
    /\ w_count = [sent |-> 0, handled |-> 0, lost |-> 0]

InitConnect ==
    /\ policy_doc = [kind |-> "absent", tau |-> Missing, tau_high |-> Missing]
    /\ env = DefaultEnv
    /\ tau = WorkerThresholds(policy_doc, env)[1]
    /\ tau_high = WorkerThresholds(policy_doc, env)[2]
    /\ probe = [n |-> 0, prev |-> NoEntry, cur |-> NoEntry]
    /\ RulesIdle
    /\ NormIdle
    /\ Starting

ConnTx ==
    {MkTx("t1", "u1", NoId, "m1", NoId, Num(100), Missing, Ts(1, 5), FALSE),
     MkTx("t2", "u1", NoId, "m1", NoId, Num(2500), Missing, Ts(1, 6), FALSE)}

ConnScores == {ScoreOk(Num(2000)), ScoreOk(Num(8000))}

NextConnect ==
    \/ \E fails \in {0, RETRIES_AGENT} : AgentStart(fails)
    \/ \E fails \in {0, RETRIES_WORKER} : WorkerStart(fails)
    \/ \E body \in ConnTx : w_count.sent < MaxTx /\ PublishTx(body)
    \/ \E so \in ConnScores : WorkerHandle(so, RulesOk(<<>>))
    \/ \E loss \in LossPoints :
          /\ loss # "none" => a_count.lost < MaxLosses
          /\ AgentHandle(LlmError, loss)
    \/ a_count.lost < MaxLosses /\ ConnectionLost
    \/ \E fails \in {0, 1, RETRIES_AGENT} : AgentReconnect(fails)
    \/ w_count.lost < MaxLosses /\ WorkerConnectionLost
    \/ a_count.lost < MaxLosses /\ w_count.lost < MaxLosses /\ BrokerRestart

SpecConnect == InitConnect /\ [][NextConnect]_vars

\* The longest outage explored, in refused connection attempts.
MaxOutage == 31

NextStart ==
    \/ \E fails \in 0..MaxOutage : AgentStart(fails)
    \/ \E fails \in 0..MaxOutage : WorkerStart(fails)
    \/ \E body \in ConnTx : w_count.sent < MaxTx /\ PublishTx(body)
    \/ WorkerHandle(ScoreOk(Num(8000)), RulesOk(<<>>))
    \/ AgentHandle(LlmError, "none")

\* The startup of both services under outages of every length.
SpecStart == InitConnect /\ [][NextStart]_vars

----------------------------------------------------------------------------
(* One FeatureComputer under any sequence of compute calls *)

FeatEvents ==
    LET base == MkTx("t1", "u1", NoId, "m1", NoId, Num(100), Missing, Ts(1, 5), FALSE)
    IN  {base,
         [base EXCEPT !.user_id = NoId],
         [base EXCEPT !.merchant = NoId],
         [base EXCEPT !.amount = Null]}

MaxEvents == 12

NextFeatures ==
    \E event \in FeatEvents : f_last.n < MaxEvents /\ Compute(event)

SpecFeatures == InitPipeline /\ [][NextFeatures]_vars

----------------------------------------------------------------------------
(* compute on events with every shape of the optional fields *)

\* ts_step missing, null, 0, an integer below and above 24, a string; ts
\* missing, parsable, off-epoch, with no digits for the hour, no string;
\* amount missing, null, a number; ip inside or outside "10.".
StepEvents ==
    {MkTx("t1", "u1", NoId, "m1", NoId, amount, ts_step, ts, ip10) :
        amount \in {Missing, Null, Num(100)},
        ts_step \in {Missing, Null, Num(0), Num(7), Num(30), Str},
        ts \in {NoTs, Ts(1, 5), Ts(2, 5), Ts(1, -1), [NoTs EXCEPT !.t = "num"]},
        ip10 \in BOOLEAN}

MaxStepCalls == 1

NextStep ==
    \E event \in StepEvents : f_last.n < MaxStepCalls /\ Compute(event)

SpecStep == InitPipeline /\ [][NextStep]_vars

----------------------------------------------------------------------------
(* One FeatureComputer fed events whose time step is the arrival number *)

\* The events of arrival number n: for the user "u1" or with no user_id,
\* all for the merchant "m1".
RingEvents(n) ==
    {MkTx("t1", u, NoId, "m1", NoId, Num(100), Num(n), NoTs, FALSE) : u \in {"u1", NoId}}

MaxRing == 12

NextRing ==
    \E event \in RingEvents(f_last.n + 1) : f_last.n < MaxRing /\ Compute(event)

SpecRing == InitPipeline /\ [][NextRing]_vars

----------------------------------------------------------------------------
(* compute on events that carry only the timestamp prepare_paysim writes *)

\* The event of PaySim step s without its ts_step field.
StampedEvent(s) == MkTx("t1", "u1", NoId, "m1", NoId, Num(100), Missing, step_to_ts(s), FALSE)

MaxStep == 750

NextStamped ==
    \E s \in 0..MaxStep : f_last.n = 0 /\ Compute(StampedEvent(s))

SpecStamped == InitPipeline /\ [][NextStamped]_vars

----------------------------------------------------------------------------
(* The rules engine under any rule file and feature vector *)

\* Conditions a rules file can hold, written as the trees ast.parse gives.
RuleConds ==
    LET amount == Name("amount")
        prev == Name("user_txn_prev10")
        velocity == Name("velocity")
        N(x) == Const(Num(x))
        gt(a, b) == Compare(a, <<"Gt">>, <<b>>)
    IN  {\* amount > 1000
         CondExpr(gt(amount, N(1000))),
         \* amount >= 100 and user_txn_prev10 < 3
         CondExpr(BoolOp("And", <<Compare(amount, <<"GtE">>, <<N(100)>>),
                                  Compare(prev, <<"Lt">>, <<N(3)>>)>>)),
         \* amount % 2 == 0 or velocity > 1
         CondExpr(BoolOp("Or", <<Compare(BinOp(amount, "Mod", N(2)), <<"Eq">>, <<N(0)>>),
                                 gt(velocity, N(1))>>)),
         \* velocity > 1
         CondExpr(gt(velocity, N(1))),
         \* amount * 2 + 1 > 200
         CondExpr(gt(BinOp(BinOp(amount, "Mult", N(2)), "Add", N(1)), N(200))),
         \* amount / 0 > 1
         CondExpr(gt(BinOp(amount, "Div", N(0)), N(1))),
         \* 0 < amount / 4 <= 25
         CondExpr(Compare(N(0), <<"Lt", "LtE">>, <<BinOp(amount, "Div", N(4)), N(25)>>)),
         \* amount ** 2 - 10000
         CondExpr(BinOp(BinOp(amount, "Pow", N(2)), "Sub", N(10000))),
         \* 1
         CondExpr(N(1)),
         \* True
         CondExpr(Const(BoolV(TRUE))),
         \* "high"
         CondExpr(Const(StrConst(1))),
         \* None
         CondExpr(Const(NoneConst)),
         \* amount != "high"
         CondExpr(Compare(amount, <<"NotEq">>, <<Const(StrConst(1))>>)),
         \* amount.real > 0
         CondExpr(gt(Attribute(amount, "real"), N(0))),
         \* abs(amount) > 0
         CondExpr(gt(Call(Name("abs"), <<amount>>), N(0))),
         \* amount[0] > 0
         CondExpr(gt(Subscript(amount, N(0)), N(0))),
         \* amount > 0 or amount.__class__.__name__ == 1
         CondExpr(BoolOp("Or", <<gt(amount, N(0)),
                                 Compare(Attribute(Attribute(amount, "__class__"), "__name__"),
                                         <<"Eq">>, <<N(1)>>)>>)),
         \* -amount < 0
         CondExpr(Compare(UnaryOp("USub", amount), <<"Lt">>, <<N(0)>>)),
         \* 1 if amount else 0
         CondExpr(IfExp(amount, N(1), N(0))),
         \* lambda: 1
         CondExpr(Lambda(N(1))),
         \* (amount, 1)
         CondExpr(TupleNode(<<amount, N(1)>>)),
         \* [amount]
         CondExpr(ListNode(<<amount>>)),
         \* amount >
         CondOther("syntax"),
         \* no "if" key
         CondOther("missing")}

\* Feature vectors of POST /eval.
RuleFeats ==
    {[amount |-> 0, user_txn_prev10 |-> 0],
     [amount |-> 100, user_txn_prev10 |-> 2],
     [amount |-> 2500, user_txn_prev10 |-> 7]}

\* The longest rules file explored.
MaxRuleCount == 2

\* Rules files: every list of up to MaxRuleCount mappings {id, if}; the
\* rule at position i has id i.
RuleFiles ==
    UNION {{[i \in 1..k |-> [isdict |-> TRUE, id |-> i, cond |-> c[i]]] :
                c \in [1..k -> RuleConds]} : k \in 1..MaxRuleCount}

InitRules ==
    /\ policy_doc = [kind |-> "absent", tau |-> Missing, tau_high |-> Missing]
    /\ env = DefaultEnv
    /\ tau = WorkerThresholds(policy_doc, env)[1]
    /\ tau_high = WorkerThresholds(policy_doc, env)[2]
    /\ probe = [n |-> 0, prev |-> NoEntry, cur |-> NoEntry]
    /\ r_rules \in RuleFiles
    /\ r_last = NoEval
    /\ NormIdle
    /\ AgentIdle
    /\ WorkerIdle

NextRules ==
    \E feats \in RuleFeats : RulesEval(feats)

SpecRules == InitRules /\ [][NextRules]_vars

----------------------------------------------------------------------------
(* _normalize_key_signals on any reply and alert *)

\* Entries a reply's key_signals can hold: numbers, booleans, values that
\* are no number under the name of a feature, of a fired rule or of
\* neither, a null value, a blank name, an entry that is no object.
SignalItems ==
    {KsItem(TRUE, "amount", Num(250)),
     KsItem(TRUE, "is_new_device", BoolV(TRUE)),
     KsItem(TRUE, "is_known_ip", BoolV(FALSE)),
     KsItem(TRUE, "hour_mod_24", Str),
     KsItem(TRUE, "channel", Str),
     KsItem(TRUE, "r1", Str),
     KsItem(TRUE, "velocity", Str),
     KsItem(TRUE, "velocity", Null),
     KsItem(TRUE, "", Num(5)),
     KsItem(FALSE, "", Missing)}

SignalItemsLong ==
    {KsItem(TRUE, "amount", Num(250)),
     KsItem(TRUE, "is_new_device", BoolV(TRUE)),
     KsItem(TRUE, "velocity", Str)}

\* Every list of up to MaxSignals entries over three kinds of entry, and
\* every list over all kinds that is MAX_KEY_SIGNALS shorter.
MaxSignals == 7

SignalLists ==
    UNION {[1..k -> SignalItems] : k \in 0..(MaxSignals - MAX_KEY_SIGNALS)} \cup
    UNION {[1..k -> SignalItemsLong] : k \in 0..MaxSignals}

NormReplies ==
    {[ValidReply EXCEPT !.ks = l] : l \in SignalLists} \cup
    {[ValidReply EXCEPT !.ks_t = "nonlist", !.ks = <<>>],
     [ValidReply EXCEPT !.ks_t = "missing", !.ks = <<>>]}

\* The alert argument: None (the default), a worker alert with a numeric
\* feature and one that is no number, one with features and reasons null.
NormAlerts ==
    LET base == WAlert("t1", 8000, <<"r1">>)
    IN  {NoAlert,
         [base EXCEPT !.features = MapOf(<<[name |-> "channel", value |-> Str],
                                           [name |-> "hour_mod_24", value |-> Num(1)]>>)],
         [base EXCEPT !.features = NullMap, !.reasons = NullList]}

\* The function keeps no state: one call per behaviour reaches every result.
NextNormalize ==
    \E obj \in NormReplies, alert \in NormAlerts : ~k_last.called /\ Normalize(obj, alert)

SpecNormalize == InitPipeline /\ [][NextNormalize]_vars

----------------------------------------------------------------------------
(* Claims on the decision policy (SpecPolicy) *)

Rank(d) == CASE d = "allow" -> 0 [] d = "step_up" -> 1 [] d = "block" -> 2 [] OTHER -> -1

\* C4: baseline_decision returns block iff score >= tau_high or two or more
\* rules fired, otherwise step_up iff score >= tau or one rule fired,
\* otherwise allow; it always returns one of the three; with tau 0.75 and
\* tau_high 0.90 the four end-to-end cases of the spec come out as listed.
C4_DecisionPolicy ==
    probe.cur.valid =>
        LET c == probe.cur
            hi == c.score >= tau_high \/ Len(c.rules) >= 2
            mid == c.score >= tau \/ Len(c.rules) >= 1
        IN  /\ c.base_dec \in {"allow", "step_up", "block"}
            /\ (c.base_dec = "block") <=> hi
            /\ (c.base_dec = "step_up") <=> (~hi /\ mid)
            /\ (c.base_dec = "allow") <=> (~hi /\ ~mid)
            /\ (tau = 7500 /\ tau_high = 9000) =>
                   /\ (c.score = 9500 /\ c.rules = <<>>) => c.base_dec = "block"
                   /\ (c.score = 5000 /\ Len(c.rules) = 2) => c.base_dec = "block"
                   /\ (c.score = 8000 /\ c.rules = <<>>) => c.base_dec = "step_up"
                   /\ (c.score = 2000 /\ c.rules = <<>>) => c.base_dec = "allow"

C4_Witness ==
    /\ probe.cur.valid /\ tau = 7500 /\ tau_high = 9000
    /\ probe.cur.score = 5000 /\ Len(probe.cur.rules) = 2
    /\ probe.cur.base_dec = "block"
    /\ probe.prev.valid /\ probe.prev.score = 2000 /\ probe.prev.base_dec = "allow"

\* C5: for fixed thresholds, also with tau_high <= tau, the decision never
\* goes down when the score goes up with the same fired rules, nor when the
\* number of fired rules goes up with the same score.
C5_Monotone ==
    (probe.prev.valid /\ probe.cur.valid) =>
        LET a == probe.prev
            b == probe.cur
        IN  /\ (Len(a.rules) = Len(b.rules) /\ a.score <= b.score)
                   => Rank(a.base_dec) <= Rank(b.base_dec)
            /\ (a.score = b.score /\ Len(a.rules) <= Len(b.rules))
                   => Rank(a.base_dec) <= Rank(b.base_dec)

C5_Witness ==
    /\ probe.prev.valid /\ probe.cur.valid /\ tau_high <= tau
    /\ probe.prev.rules = <<>> /\ probe.cur.rules = <<>>
    /\ probe.prev.score < probe.cur.score /\ probe.cur.score < tau
    /\ probe.prev.base_dec = "allow" /\ probe.cur.base_dec = "block"

\* C6: on every alert the worker emits, the agent's fallback recommends the
\* decision the worker stored in the alert, whenever both read the same
\* policy document.
C6_FallbackMatchesBaseline ==
    probe.cur.fb_done =>
        /\ probe.cur.fb.ok
        /\ probe.cur.fb.rec.decision_recommendation = probe.cur.base_dec

----------------------------------------------------------------------------
(* Claims on one call of AgentService.handle (SpecHandle) *)

LastAlert == a_last.alert
LastOut == a_last.out
Handled == a_last.n > 0

\* C1: for every JSON-decodable alert, whatever is missing, null or of an
\* unexpected type in it, and for every backend outcome, handle returns
\* normally having published exactly one recommendation and acknowledged.
C1_HandleTotal ==
    (Handled /\ LastAlert.kind = "obj") =>
        /\ LastOut.end = "returned"
        /\ Len(LastOut.pub) = 1
        /\ LastOut.acked

\* The backend call failed, the content was not JSON, or the object fails
\* the validation handle performs.
BackendFailed(reply) ==
    \/ reply.kind \in {"error", "nonjson", "nonobj"}
    \/ reply.decision \notin {"allow", "step_up", "block"}
    \/ reply.rationale # "str"
    \/ reply.act_t # "list"

LastRow(tbl, id) == IF tbl[id] = <<>> THEN NoRec ELSE tbl[id][Len(tbl[id])]

C7_ShortCircuit ==
    (Handled /\ LastAlert.kind = "obj" /\ LastAlert.score.t = "num"
        /\ LastAlert.score.n <= env.MIN_SCORE_FOR_LLM) =>
        /\ ~LastOut.llm_called
        /\ LastOut.pub # <<>> =>
              LET fb == policy_fallback(LastAlert, policy_doc).rec
                  r == LastOut.pub[1]
              IN  /\ r.decision_recommendation = fb.decision_recommendation
                  /\ r.key_signals = fb.key_signals
                  /\ r.actions = fb.actions
        /\ (LastAlert = WAlert("t1", 5, <<>>) /\ policy_doc.kind = "absent") =>
              /\ LastOut.pub # <<>>
              /\ LastOut.pub[1].decision_recommendation = "allow"

C7_Witness ==
    /\ Handled /\ LastAlert = WAlert("t1", 5, <<>>) /\ policy_doc.kind = "absent"
    /\ ~LastOut.llm_called /\ LastOut.path = "short"
    /\ LastOut.pub # <<>> /\ LastOut.pub[1].decision_recommendation = "allow"
    /\ LastOut.pub[1].actions = <<"none">>
    /\ Len(LastOut.pub[1].key_signals) = 3

\* C9: a body that is not JSON is acknowledged once and dropped: no backend
\* call, no write to either table, nothing published.
C9_MalformedAlertDropped ==
    [][(a_last'.n # a_last.n /\ a_last'.alert.kind = "bad") =>
          /\ a_last'.out.ack_calls = 1
          /\ a_last'.out.acked
          /\ a_last'.out.end = "returned"
          /\ ~a_last'.out.llm_called
          /\ store_alerts' = store_alerts
          /\ store_recs' = store_recs
          /\ recs_q' = recs_q
          /\ unacked' = unacked
          /\ alerts_q' = Tail(alerts_q)]_vars

C9_Witness ==
    /\ Handled /\ LastAlert.kind = "bad"
    /\ LastOut.ack_calls = 1 /\ LastOut.acked
    /\ alerts_q = <<>> /\ unacked = <<>> /\ recs_q = <<>>

----------------------------------------------------------------------------
(* Claims on the agent's run loop (SpecAgent) *)

RecsFor(mid) == {i \in 1..Len(recs_q) : recs_q[i].mid = mid}
Pending(mid) ==
    \/ \E i \in 1..Len(alerts_q) : alerts_q[i].mid = mid
    \/ \E i \in 1..Len(unacked) : unacked[i].mid = mid

\* C3: every alert placed on alerts.high_risk gets exactly one message on
\* analyst.recommendations, whatever the losses and redeliveries: never two,
\* and one as soon as its delivery has been acknowledged.
C3_ExactlyOnePerAlert ==
    \A mid \in 1..a_count.sent :
        /\ Cardinality(RecsFor(mid)) <= 1
        /\ (a_last.mid = mid /\ a_last.alert.kind = "obj" /\ ~Pending(mid))
              => Cardinality(RecsFor(mid)) = 1

----------------------------------------------------------------------------
(* Claims on the stream worker (SpecWorker) *)

WHandled == w_last.n > 0

\* C8: when the body of a transactions.raw message is not decodable JSON,
\* StreamWorker.handle acknowledges the delivery, publishes nothing to
\* fraud.scores or alerts.high_risk, leaves every history unchanged, returns
\* without raising, and the worker goes on consuming.
C8_MalformedTxDropped ==
    (WHandled /\ w_last.tx.kind = "bad") =>
        /\ w_last.out.end = "returned"
        /\ w_last.out.ack_calls = 1
        /\ w_last.out.scores = <<>>
        /\ w_last.out.alerts = <<>>
        /\ user_history = w_last.before.u
        /\ merchant_history = w_last.before.m
        /\ w_state = "consuming"

ScoringFailed(so) ==
    so.kind \in {"conn_error", "connect_timeout", "read_timeout", "status", "nonjson"}

\* C10: for every well-formed transaction, if the scoring collaborator is
\* unreachable, times out, answers with a non-success status or with an
\* undecodable body, handle uses score 0.0 for the decision, the telemetry
\* record and any alert, publishes the telemetry and acknowledges.
C10_FailOpenScore ==
    (WHandled /\ w_last.tx.kind = "obj" /\ GetFloatOk(w_last.tx.amount)
       /\ ScoringFailed(w_last.so)) =>
        /\ w_last.out.end = "returned"
        /\ w_last.out.score = 0
        /\ w_last.out.base_dec = baseline_decision(0, w_last.out.fired, tau, tau_high)
        /\ Len(w_last.out.scores) = 1
        /\ w_last.out.scores[1].score = 0
        /\ \A i \in 1..Len(w_last.out.alerts) : w_last.out.alerts[i].score = Num(0)
        /\ w_last.out.ack_calls = 1

RulesFailed(ro) ==
    \/ ro.kind \in {"error", "timeout", "nonjson", "nonobj"}
    \/ ro.kind = "ok" /\ ro.fired.t # "list"

\* C11: for every well-formed transaction, if the rule collaborator is
\* unreachable, times out, answers with an undecodable body or with a
\* "fired" that is no list, handle uses the empty fired-rule list, publishes
\* the telemetry, acknowledges, and emits an alert exactly when the score
\* alone reaches tau.
C11_FailOpenRules ==
    (WHandled /\ w_last.tx.kind = "obj" /\ GetFloatOk(w_last.tx.amount)
       /\ RulesFailed(w_last.ro)) =>
        /\ w_last.out.end = "returned"
        /\ w_last.out.fired = <<>>
        /\ Len(w_last.out.scores) = 1
        /\ w_last.out.scores[1].reasons = <<>>
        /\ w_last.out.ack_calls = 1
        /\ (w_last.out.alerts # <<>>) <=> (w_last.out.score >= tau)
        /\ \A i \in 1..Len(w_last.out.alerts) : w_last.out.alerts[i].reasons = ListOf(<<>>)

C11_Witness ==
    /\ WHandled /\ w_last.tx.kind = "obj"
    /\ w_last.ro = RulesNonList
    /\ w_last.so = ScoreOk(Num(2000))
    /\ tau = DEFAULT_TAU
    /\ w_last.out.end = "returned"
    /\ w_last.out.alerts = <<>>
    /\ Len(scores_q) = 1

----------------------------------------------------------------------------
(* Claims on the two consumers together (SpecPipeline) *)

AckCount(ops) == Cardinality({i \in 1..Len(ops) : ops[i] = "ack"})

\* ops holds at most one ack, nothing follows it, and every operation of
\* outputs precedes it.
AckLast(ops, outputs) ==
    /\ AckCount(ops) <= 1
    /\ \A i \in 1..Len(ops) :
          ops[i] = "ack" =>
              /\ i = Len(ops)
              /\ \A o \in outputs : \E j \in 1..(i - 1) : ops[j] = o

\* C12: in both consumers a call of handle issues basic_ack for its
\* delivery at most once, and only after every publication and store write
\* that message causes: the alert upsert, the recommendation publish and
\* save in the agent; fraud.scores and, when escalated, alerts.high_risk in
\* the worker.
C12_AckLast ==
    /\ AckLast(a_last.out.ops,
               IF a_last.out.path = "drop" THEN {} ELSE {"upsert", "publish", "save"})
    /\ a_last.out.ack_calls = AckCount(a_last.out.ops)
    /\ (a_last.out.acked /\ a_last.out.path # "drop") =>
          (a_last.out.upsert /\ a_last.out.pub # <<>> /\ a_last.out.saved)
    /\ AckLast(w_last.out.ops,
               {"publish_scores"} \cup
               (IF w_last.out.base_dec \in {"step_up", "block"} THEN {"publish_alert"} ELSE {}))
    /\ w_last.out.ack_calls = AckCount(w_last.out.ops)
    /\ w_last.out.ack_calls = 1 =>
          (Len(w_last.out.scores) = 1 /\
           (w_last.out.base_dec \in {"step_up", "block"} => Len(w_last.out.alerts) = 1))

C12_Witness ==
    /\ w_last.out.ops = <<"rules_eval", "model_score", "publish_scores", "publish_alert", "ack">>
    /\ a_last.out.ops = <<"upsert", "recent", "llm", "publish", "save", "ack">>
    /\ a_last.out.acked
    /\ a_last.alert.txn_id = w_last.tx.txn_id
    /\ Len(recs_q) = 1

----------------------------------------------------------------------------
(* Claims on connections (SpecAgent, SpecConnect, SpecStart) *)

\* C13: after a connection loss AgentService.run reconnects, re-declares its
\* queues, re-registers the consumer with its prefetch limit and resumes,
\* for any number of losses and any length of outage; run never ends
\* because the broker stayed unreachable.
C13_ReconnectsIndefinitely ==
    /\ a_state # "crashed"
    /\ (a_state = "consuming" /\ a_count.lost > 0) =>
          /\ a_conn.declared = {Q_ALERTS, Q_RECS}
          /\ a_conn.consumer
          /\ a_conn.prefetch = PREFETCH_AGENT

\* C14: when the connection is lost while the stream worker is consuming
\* transactions.raw, the worker reconnects and resumes; StreamWorker.run
\* does not end because of the loss.
C14_WorkerSurvivesLoss ==
    w_count.lost > 0 => w_state \in {"consuming", "reconnecting"}

MinOf(a, b) == IF a <= b THEN a ELSE b

\* C15: RabbitClient.__init__ and connect_with_retry make at most retries
\* attempts (30 and 10) and stop at the first that succeeds; when all fail
\* the error reaches the caller, no client is returned, and nothing is
\* consumed or published by that process.
C15_BoundedStartupRetries ==
    /\ a_state # "starting" =>
          /\ a_conn.attempts = MinOf(a_conn.fails + 1, RETRIES_AGENT)
          /\ (a_state = "failed") <=> (a_conn.fails >= RETRIES_AGENT)
          /\ a_state = "failed" =>
                /\ ~a_conn.consumer /\ a_conn.used = {}
                /\ a_count.handled = 0 /\ recs_q = <<>>
    /\ w_state # "starting" =>
          /\ w_conn.attempts = MinOf(w_conn.fails + 1, RETRIES_WORKER)
          /\ (w_state = "failed") <=> (w_conn.fails >= RETRIES_WORKER)
          /\ w_state = "failed" =>
                /\ ~w_conn.consumer /\ w_conn.used = {}
                /\ w_count.handled = 0 /\ scores_q = <<>> /\ alerts_q = <<>>

C15_Witness ==
    /\ a_state = "failed" /\ a_conn.attempts = RETRIES_AGENT
    /\ w_state = "consuming" /\ w_conn.fails = RETRIES_WORKER - 1
    /\ w_conn.attempts = RETRIES_WORKER
    /\ w_count.handled = 1
    /\ Len(alerts_q) = 1

\* C16: on every channel, the first one and each one opened after a loss,
\* every queue the component consumes from or publishes to was declared on
\* that channel before its first use, and declaring the same queues again
\* leaves the set of declared queues as it was.
C16_DeclareBeforeUse ==
    /\ a_conn.used \subseteq a_conn.declared
    /\ w_conn.used \subseteq w_conn.declared
    /\ a_state = "consuming" =>
          /\ a_conn.declared = {Q_ALERTS, Q_RECS}
          /\ a_conn.ndeclare = 2
    /\ w_state = "consuming" =>
          /\ w_conn.declared = {Q_TRANSACTIONS, Q_SCORES, Q_ALERTS}
          /\ w_conn.ndeclare = 6

C16_Witness ==
    /\ a_count.lost > 0 /\ a_state = "consuming"
    /\ a_conn.fails = 1
    /\ a_conn.used = {Q_ALERTS, Q_RECS}
    /\ w_conn.used = {Q_TRANSACTIONS, Q_SCORES, Q_ALERTS}

\* C17: every message published to alerts.high_risk by the stream worker
\* and to analyst.recommendations by the agent carries delivery mode 2, so
\* a broker restart before it is consumed does not lose it.
C17_DurablePublications ==
    /\ \A i \in 1..Len(alerts_q) : alerts_q[i].delivery_mode = DELIVERY_MODE_PERSISTENT
    /\ \A i \in 1..Len(unacked) : unacked[i].delivery_mode = DELIVERY_MODE_PERSISTENT
    /\ \A i \in 1..Len(recs_q) : recs_q[i].delivery_mode = DELIVERY_MODE_PERSISTENT

----------------------------------------------------------------------------
(* Claims on the feature computer (SpecFeatures) *)

\* C18: after any sequence of compute calls every returned user_txn_prev10
\* and merchant_txn_prev10 lies in 0..10, every stored history has at most
\* 10 entries, and the values returned for one entity never decrease.
C18_VelocityBounds ==
    /\ \A k \in UserKeys : Len(user_history[k]) <= 10
    /\ \A k \in MerchantKeys : Len(merchant_history[k]) <= 10
    /\ f_last.ok =>
          /\ FeatureValue(f_last.feats, "user_txn_prev10") \in 0..10
          /\ FeatureValue(f_last.feats, "merchant_txn_prev10") \in 0..10
    /\ \A k \in UserKeys : f_last.ret.u[k] >= f_last.prev.u[k]
    /\ \A k \in MerchantKeys : f_last.ret.m[k] >= f_last.prev.m[k]

C18_Witness ==
    /\ f_last.n = 12 /\ f_last.ok
    /\ f_last.user_key = "u1"
    /\ FeatureValue(f_last.feats, "user_txn_prev10") = 10
    /\ f_last.prev.u["u1"] = 10
    /\ Len(user_history["u1"]) = 10
    /\ FeatureValue(f_last.feats, "merchant_txn_prev10") = 3

----------------------------------------------------------------------------
(* Claims on the rules engine (SpecRules) *)

\* The rule at position i of the loaded file holds an attribute access, a
\* call or a subscript somewhere in its condition.
Sandboxed(i) ==
    /\ r_rules[i].cond.kind = "expr"
    /\ NodeTypes(r_rules[i].cond.ast) \cap {"Attribute", "Call", "Subscript"} # {}

\* C19: Rule sandbox. After every call of RulesEngine.eval, each rule whose
\* condition holds an attribute access, a function call or a subscript
\* anywhere was rejected by the walk of _safe_eval before evaluation, the
\* call did not raise, and the rule's id is not in the fired list.
C19_RuleSandbox ==
    r_last.called =>
        \A i \in 1..Len(r_rules) :
            Sandboxed(i) =>
                /\ ~r_last.raised
                /\ r_last.stages[i] = "rejected"
                /\ i \notin SeqToSet(r_last.fired)

\* A call on a file whose first rule is sandboxed and whose second fired.
C19_Witness ==
    /\ r_last.called
    /\ Len(r_rules) = 2
    /\ Sandboxed(1)
    /\ r_last.fired = <<2>>

\* The grammar of rule conditions: named variables, numeric literals, the
\* arithmetic operators, the comparisons and and/or.
RECURSIVE InGrammar(_)
InGrammar(n) ==
    /\ \/ n.type = "Name"
       \/ n.type = "Constant" /\ n.val.t = "num"
       \/ n.type = "BinOp" /\ n.ops[1] \in {"Add", "Sub", "Mult", "Div", "Mod", "Pow"}
       \/ n.type = "Compare" /\ SeqToSet(n.ops) \subseteq {"Eq", "NotEq", "Lt", "LtE", "Gt", "GtE"}
       \/ n.type = "BoolOp" /\ n.ops[1] \in {"And", "Or"}
    /\ \A k \in 1..Len(n.kids) : InGrammar(n.kids[k])

\* C20: Closed rule grammar. After every call of RulesEngine.eval, a rule
\* that fired has a condition inside the grammar, and a rule whose
\* condition holds any other construct was rejected at validation and did
\* not fire.
C20_ClosedGrammar ==
    r_last.called =>
        \A i \in 1..Len(r_rules) :
            /\ i \in SeqToSet(r_last.fired) =>
                   r_rules[i].cond.kind = "expr" /\ InGrammar(r_rules[i].cond.ast)
            /\ (r_rules[i].cond.kind = "expr" /\ ~InGrammar(r_rules[i].cond.ast)) =>
                   r_last.stages[i] = "rejected" /\ i \notin SeqToSet(r_last.fired)

\* The condition of the rule at position i validates and evaluates to a
\* true value on the feature vector of the last call.
TrueCond(i) ==
    /\ r_rules[i].cond.kind = "expr"
    /\ Validate(r_rules[i].cond.ast)
    /\ EvalNode(r_rules[i].cond.ast, r_last.feats).ok
    /\ Truthy(EvalNode(r_rules[i].cond.ast, r_last.feats).v)

\* C21: Bad-rule isolation and order. Every call of RulesEngine.eval
\* returns, without raising, exactly the ids of the rules whose condition
\* validates and evaluates to a true value, in declaration order; a rule
\* that fails to parse, names an unknown variable or raises in evaluation
\* adds nothing and every rule after it is still evaluated.
C21_BadRuleIsolation ==
    r_last.called =>
        /\ ~r_last.raised
        /\ Len(r_last.stages) = Len(r_rules)
        /\ SeqToSet(r_last.fired) = {i \in 1..Len(r_rules) : TrueCond(i)}
        /\ \A j, k \in 1..Len(r_last.fired) : j < k => r_last.fired[j] < r_last.fired[k]

\* A call on a file whose first rule failed to parse or raised in
\* evaluation and whose second rule fired.
C21_Witness ==
    /\ r_last.called
    /\ Len(r_rules) = 2
    /\ r_last.stages[1] \in {"parse_error", "eval_error"}
    /\ r_last.stages[2] = "fired"
    /\ r_last.fired = <<2>>

----------------------------------------------------------------------------
(* Claims on key_signals normalization (SpecNormalize) *)

\* The value an entry of key_signals is kept with: its own when it is a
\* number or a boolean, else the alert's numeric feature of that name, else
\* 1 for the name of a fired rule; Missing when the entry is dropped.
KeptValue(item, alert) ==
    IF ~item.isdict \/ item.name = "" THEN Missing
    ELSE IF item.value.t \in {"num", "bool"} THEN Num(item.value.n)
    ELSE IF FeatureOf(alert.features.m, item.name).t \in {"num", "bool"}
         THEN Num(FeatureOf(alert.features.m, item.name).n)
    ELSE IF item.name \in SeqToSet(alert.reasons.l) THEN Num(1)
    ELSE Missing

ExpectedSignals(ks, alert) ==
    LET Kept(item) == KeptValue(item, alert) # Missing
        sel == SelectSeq(ks, Kept)
    IN  FirstN([i \in 1..Len(sel) |-> [name |-> sel[i].name, value |-> KeptValue(sel[i], alert)]],
               5)

\* C22: key_signals normalization. After every call of
\* _normalize_key_signals, key_signals is a list of at most 5 entries with
\* a non-empty name and a numeric value: the entries of the input kept in
\* input order (booleans as 1 or 0, numbers unchanged, other values
\* backfilled from the alert or dropped), cut to the first 5.
C22_KeySignalsNormalized ==
    k_last.called =>
        /\ k_last.out.ks_t = "list"
        /\ Len(k_last.out.ks) <= 5
        /\ \A i \in 1..Len(k_last.out.ks) :
               k_last.out.ks[i].name # "" /\ k_last.out.ks[i].value.t = "num"
        /\ k_last.out.ks = ExpectedSignals(k_last.obj.ks, k_last.alert)

\* A call on a 7-entry list of numbers and booleans, cut to its first 5.
C22_Witness ==
    /\ k_last.called
    /\ Len(k_last.obj.ks) = 7
    /\ \A i \in 1..7 : k_last.obj.ks[i].value.t \in {"num", "bool"}
    /\ \E i \in 1..5 : k_last.obj.ks[i].value = BoolV(TRUE)
    /\ Len(k_last.out.ks) = 5
    /\ \A i \in 1..5 : k_last.out.ks[i].name = k_last.obj.ks[i].name

----------------------------------------------------------------------------
(* Claims on the key signals handle publishes (SpecHandle) *)

\* C23: Backfill from the alert in the live path. When handle publishes the
\* backend's reply, every key signal of the reply whose value is no number
\* and whose name is a numeric feature of the alert or one of its fired
\* rules is in the published key_signals, with the feature's value or 1.
C23_BackfillInLivePath ==
    (Handled /\ LastOut.path = "llm" /\ LastOut.pub # <<>>) =>
        \A i \in 1..Len(a_last.reply.ks) :
            LET item == a_last.reply.ks[i]
            IN  (/\ item.isdict
                 /\ item.name # ""
                 /\ item.value.t \notin {"num", "bool"}
                 /\ KeptValue(item, LastAlert) # Missing) =>
                    [name |-> item.name, value |-> KeptValue(item, LastAlert)]
                        \in SeqToSet(LastOut.pub[1].key_signals)

\* AGENT_JSON_SCHEMA on a published recommendation, with the bound of 5 key
\* signals.
RecSchemaValid(rec) ==
    /\ rec.decision_recommendation \in {"allow", "step_up", "block"}
    /\ Len(rec.key_signals) <= 5
    /\ \A i \in 1..Len(rec.key_signals) :
           rec.key_signals[i].name # "" /\ rec.key_signals[i].value.t = "num"
    /\ rec.rationale.kind \in {"llm", "fallback", "default"}
    /\ \A i \in 1..Len(rec.actions) : rec.actions[i] \in STRING

\* C24: Every published recommendation is schema-valid. On every path of
\* handle and for every alert, the object published has a decision among
\* allow, step_up and block, at most 5 key signals each with a name and a
\* numeric value, and a list of actions.
C24_PublishedSchemaValid ==
    (Handled /\ LastOut.pub # <<>>) => RecSchemaValid(LastOut.pub[1])

----------------------------------------------------------------------------
(* Claims on the policy document (SpecPolicy) *)

\* The policy document is absent or not decodable, or holds a threshold
\* that is no number.
Malformed(doc) ==
    \/ doc.kind # "obj"
    \/ doc.tau.t \notin {"missing", "num"}
    \/ doc.tau_high.t \notin {"missing", "num"}

\* C25: Policy defaults. Under the default environment, when the policy
\* document is absent, not decodable or holds a threshold that is no
\* number, the worker's thresholds are the defaults 0.75 and 0.90, and so
\* are the thresholds of every recommendation of policy_fallback: never one
\* value of the document with one default.
C25_PolicyDefaults ==
    (env = DefaultEnv /\ Malformed(policy_doc)) =>
        /\ tau = DEFAULT_TAU
        /\ tau_high = DEFAULT_TAU_HIGH
        /\ (probe.cur.fb_done /\ probe.cur.fb.ok) =>
               /\ probe.cur.fb.rec.rationale.tau = Fmt2(DEFAULT_TAU)
               /\ probe.cur.fb.rec.rationale.tau_high = Fmt2(DEFAULT_TAU_HIGH)

----------------------------------------------------------------------------
(* Claims on what the stream worker publishes (SpecWorker) *)

Escalated(d) == d \in {"step_up", "block"}

\* C26: Telemetry always, alert iff escalated. For every decodable
\* transaction handle processes, one record goes to fraud.scores and one
\* alert goes to alerts.high_risk exactly when baseline_decision is step_up
\* or block; every alert carries such a decision and has a score of at least
\* tau or a fired rule.
C26_TelemetryAlways ==
    (WHandled /\ w_last.tx.kind # "bad") =>
        /\ Len(w_last.out.scores) = 1
        /\ Len(w_last.out.alerts) = IF Escalated(w_last.out.base_dec) THEN 1 ELSE 0
        /\ \A i \in 1..Len(w_last.out.alerts) :
               /\ Escalated(w_last.out.alerts[i].baseline_decision)
               /\ \/ w_last.out.alerts[i].score.n >= tau
                  \/ Len(w_last.out.alerts[i].reasons.l) >= 1

----------------------------------------------------------------------------
(* Claims on FeatureComputer.compute (SpecStep, SpecRing, SpecWorker) *)

\* The time step of the last event the history of key holds.
LastStep(h, key) == IF h[key] = <<>> THEN -2 ELSE h[key][Len(h[key])]

\* Neither ts_step nor ts gives the event a time step.
StepUndetermined(event) ==
    /\ event.ts_step.t # "num"
    /\ ~(event.ts.t = "str" /\ event.ts.month = 8 /\ event.ts.day = 1 /\ event.ts.hour >= 0)

\* C27: compute returns a feature vector for every event, whatever its
\* optional fields hold, and uses time step 0 when neither ts_step nor ts
\* gives one.
C27_ComputeNeverRaises ==
    f_last.n > 0 =>
        /\ f_last.ok
        /\ StepUndetermined(f_last.event) =>
              /\ FeatureValue(f_last.feats, "hour_mod_24") = 0
              /\ LastStep(user_history, f_last.user_key) = 0
              /\ LastStep(merchant_history, f_last.merchant_key) = 0

\* The last k entries of the sequence s (all of s when it is shorter).
LastN(s, k) == IF Len(s) <= k THEN s ELSE SubSeq(s, Len(s) - k + 1, Len(s))

\* C28: the n-th event compute sees for a user returns user_txn_prev10 =
\* min(n-1, 10), and afterwards the user's history is the time steps of the
\* user's last min(n, 10) events in arrival order; the same for merchants.
C28_RingBufferVelocity ==
    /\ \A k \in UserKeys : user_history[k] = LastN(f_last.log.u[k], HISTORY_MAXLEN)
    /\ \A k \in MerchantKeys : merchant_history[k] = LastN(f_last.log.m[k], HISTORY_MAXLEN)
    /\ f_last.n > 0 /\ f_last.ok =>
          LET nu == Len(f_last.log.u[f_last.user_key])
              nm == Len(f_last.log.m[f_last.merchant_key])
          IN  /\ FeatureValue(f_last.feats, "user_txn_prev10") =
                     (IF nu - 1 < HISTORY_MAXLEN THEN nu - 1 ELSE HISTORY_MAXLEN)
              /\ FeatureValue(f_last.feats, "merchant_txn_prev10") =
                     (IF nm - 1 < HISTORY_MAXLEN THEN nm - 1 ELSE HISTORY_MAXLEN)

\* The 12th event of the merchant, the 11th of a user: the oldest entries
\* are gone, the histories start at different steps.
C28_Witness ==
    /\ f_last.ok
    /\ Len(f_last.log.m["m1"]) = 12
    /\ Len(f_last.log.u["u1"]) = 11
    /\ merchant_history["m1"][1] = 3
    /\ Len(user_history["u1"]) = HISTORY_MAXLEN
    /\ user_history["u1"][1] # f_last.log.u["u1"][1]
    /\ FeatureValue(f_last.feats, "user_txn_prev10") = HISTORY_MAXLEN

\* The history new is old with the one entry x appended to the ring buffer.
OneAppended(old, new, x) ==
    IF Len(old) < HISTORY_MAXLEN THEN new = Append(old, x) ELSE new = Append(Tail(old), x)

\* The step from the histories uh, mh to uh2, mh2 appends one entry for the
\* user uk and one for the merchant mk and nothing else.
FrameOfCall(uh, mh, uh2, mh2, uk, mk) ==
    /\ uh2[uk] # <<>> /\ OneAppended(uh[uk], uh2[uk], uh2[uk][Len(uh2[uk])])
    /\ mh2[mk] # <<>> /\ OneAppended(mh[mk], mh2[mk], mh2[mk][Len(mh2[mk])])
    /\ \A k \in UserKeys \ {uk} : uh2[k] = uh[k]
    /\ \A k \in MerchantKeys \ {mk} : mh2[k] = mh[k]

\* C29: each call compute(event) appends exactly one entry to the history
\* of the event's user and one to the history of the event's merchant and
\* leaves every other history unchanged; no other operation of the worker
\* modifies a history.
C29_HistoryFrame ==
    [][IF f_last'.n # f_last.n
       THEN FrameOfCall(user_history, merchant_history, user_history', merchant_history',
                        f_last'.user_key, f_last'.merchant_key)
       ELSE UNCHANGED <<user_history, merchant_history>>]_vars

\* C30: when the event carries an integer ts_step, 0 included, the time step
\* compute uses (the entry appended to both histories, and hour_mod_24) is
\* ts_step, whatever ts holds.
C30_ExplicitStepWins ==
    f_last.n > 0 /\ f_last.ok /\ f_last.event.ts_step.t = "num" =>
        /\ LastStep(user_history, f_last.user_key) = f_last.event.ts_step.n
        /\ LastStep(merchant_history, f_last.merchant_key) = f_last.event.ts_step.n
        /\ FeatureValue(f_last.feats, "hour_mod_24") = f_last.event.ts_step.n % 24

----------------------------------------------------------------------------
(* Claims on the validation of the backend's reply (SpecHandle) *)

\* The reply object lacks one of the four required fields or holds one of
\* them with the wrong type.
LacksField(reply) ==
    \/ reply.decision \in {"missing", "nonstr"}
    \/ reply.rationale # "str"
    \/ reply.ks_t # "list"
    \/ reply.act_t # "list"

\* C31: a backend reply that lacks decision_recommendation, rationale,
\* key_signals or actions, or holds one of them with the wrong type, is not
\* accepted: what handle publishes does not come from the reply.
C31_IncompleteReplyRejected ==
    (Handled /\ LastOut.llm_called /\ a_last.reply.kind = "obj" /\ LacksField(a_last.reply)) =>
        /\ LastOut.path # "llm"
        /\ \A i \in 1..Len(LastOut.pub) : LastOut.pub[i].rationale.kind # "llm"

----------------------------------------------------------------------------
(* Claims on the fallback's contents and the last-resort default (SpecHandle) *)

\* The entries of the alert's feature map, none when the map is absent,
\* null or empty.
FeatureEntries(alert) == IF alert.features.t = "map" THEN alert.features.m ELSE <<>>

\* key_signals is the first three feature entries in the map's order, and
\* actions goes with the decision.
FallbackContents(rec, alert) ==
    LET fe == FeatureEntries(alert)
        k == IF Len(fe) < 3 THEN Len(fe) ELSE 3
    IN  /\ Len(rec.key_signals) = k
        /\ \A i \in 1..k : rec.key_signals[i] = fe[i]
        /\ rec.actions = <<"manual_review_queue">> <=>
              rec.decision_recommendation \in {"step_up", "block"}
        /\ rec.actions = <<"none">> <=> rec.decision_recommendation = "allow"

\* C32: a recommendation made by policy_fallback(alert) carries the first
\* three entries of the alert's feature map as key_signals (all when fewer,
\* none when there are none) and actions ["manual_review_queue"] exactly
\* for step_up and block, ["none"] exactly for allow.
C32_FallbackContents ==
    \A i \in 1..Len(LastOut.pub) :
        LastOut.pub[i].rationale.kind = "fallback" => FallbackContents(LastOut.pub[i], LastAlert)

\* A fallback on an alert with four features, cut to three.
C32_Witness ==
    /\ Handled /\ LastOut.path = "fallback" /\ LastOut.pub # <<>>
    /\ Len(FeatureEntries(LastAlert)) = 4
    /\ Len(LastOut.pub[1].key_signals) = 3
    /\ LastOut.pub[1].actions = <<"manual_review_queue">>

\* C33: when the backend path has failed and the fallback gives no value
\* (FALLBACK_ENABLE false, or policy_fallback raises on this alert), handle
\* publishes exactly the fixed default object and acknowledges.
C33_LastResortDefault ==
    (/\ Handled /\ LastOut.llm_called /\ LastOut.path \in {"fallback", "default"}
     /\ ~env.FALLBACK_ENABLE \/ ~policy_fallback(LastAlert, policy_doc).ok) =>
        /\ LastOut.pub = <<DefaultRec>>
        /\ LastOut.acked

----------------------------------------------------------------------------
(* Claims on the store and on the consumers' progress (SpecAgent, SpecPipeline) *)

\* C34: the store holds at most one alert row and one recommendation row
\* per txn_id, and a row once written is never changed by later processing.
C34_WriteOnce ==
    [][\A id \in TxnIds \ {NoId} :
          /\ Len(store_alerts'[id]) <= 1
          /\ Len(store_recs'[id]) <= 1
          /\ store_alerts[id] # <<>> => store_alerts'[id] = store_alerts[id]
          /\ store_recs[id] # <<>> => store_recs'[id] = store_recs[id]]_vars

\* The message numbered mid is in the sequence q of messages.
InFlight(q, mid) == \E i \in 1..Len(q) : q[i].mid = mid

MsgIds == 1..(MaxTx + MaxAlerts)

\* C35: with the connection up, every message handed to the agent or to the
\* worker is eventually acknowledged, and every message waiting in a queue
\* is eventually processed, whatever the messages before it held.
C35_NoPoisonMessage ==
    /\ \A mid \in MsgIds : InFlight(unacked, mid) ~> ~InFlight(unacked, mid)
    /\ \A mid \in MsgIds : InFlight(alerts_q, mid) ~> ~InFlight(alerts_q \o unacked, mid)
    /\ \A mid \in MsgIds : InFlight(tx_q, mid) ~> ~InFlight(tx_q \o w_unacked, mid)

\* C36: an exception of handle that is no connection error does not end
\* run: the agent is consuming again on the same channel, every alert
\* waiting behind the failed delivery is eventually handed to handle, and
\* each alert handle then runs to the end on has its recommendation
\* published.
C36_AgentSurvivesError ==
    /\ [][(a_last'.n # a_last.n /\ a_last'.out.end = "raised") =>
             (a_state' = "consuming" /\ a_conn' = a_conn)]_vars
    /\ []((Handled /\ unacked # <<>> /\ LastAlert.kind = "obj" /\ LastOut.end = "returned") =>
             (LastOut.acked /\ InFlight(recs_q, a_last.mid)))
    /\ (unacked # <<>> /\ alerts_q # <<>>) ~> (alerts_q = <<>>)

\* handle raised on the first alert, which stays unacknowledged; the second
\* alert was processed after it and its recommendation published.
C36_Witness ==
    /\ a_state = "consuming"
    /\ InFlight(unacked, 1)
    /\ a_last.mid = 2 /\ LastOut.end = "returned" /\ LastOut.acked
    /\ InFlight(recs_q, 2)

----------------------------------------------------------------------------
(* Claims on the time step and the entity keys (SpecStamped, SpecWorker) *)

\* The step whose timestamp prepare_paysim.step_to_ts writes as ts.
WrittenStep(ts) == CHOOSE s \in 0..MaxStep : step_to_ts(s) = ts

\* C37: the step compute recovers from the timestamp step_to_ts(s) writes
\* is s, and hour_mod_24 computed from the timestamp alone is s mod 24,
\* also for s >= 24.
C37_TimestampRoundTrip ==
    (f_last.n > 0 /\ f_last.ok) =>
        LET s == WrittenStep(f_last.event.ts)
        IN  /\ derive_step_from_ts(step_to_ts(s)) = s
            /\ LastStep(user_history, f_last.user_key) = s
            /\ FeatureValue(f_last.feats, "hour_mod_24") = s % 24

\* C38: the user key and merchant key under which compute reads and
\* updates the histories are the user_id and merchant handle writes into
\* the telemetry record and the alert of the same transaction.
C38_SameEntity ==
    w_last.n > 0 =>
        /\ \A i \in 1..Len(w_last.out.scores) :
              /\ f_last.user_key = w_last.out.scores[i].user_id
              /\ f_last.merchant_key = w_last.out.scores[i].merchant
        /\ \A i \in 1..Len(w_last.out.alerts) :
              /\ f_last.user_key = w_last.out.alerts[i].user_id
              /\ f_last.merchant_key = w_last.out.alerts[i].merchant

----------------------------------------------------------------------------
(* Claims on short-circuited worker alerts (SpecShort) *)

\* C39: an alert the worker emitted that the agent handles on the
\* short-circuit path, both holding the same thresholds with tau above
\* MIN_SCORE_FOR_LLM, has a step_up or block baseline and a fired rule, and
\* is recommended step_up or block with actions ["manual_review_queue"].
C39_ShortCircuitNeverAllow ==
    (/\ Handled /\ LastAlert.kind = "obj" /\ LastOut.path = "short"
     /\ AgentThresholds(policy_doc) = <<tau, tau_high>>
     /\ tau > env.MIN_SCORE_FOR_LLM) =>
        /\ LastAlert.baseline_decision \in {"step_up", "block"}
        /\ Len(LastAlert.reasons.l) >= 1
        /\ Len(LastOut.pub) = 1
        /\ LastOut.pub[1].decision_recommendation \in {"step_up", "block"}
        /\ LastOut.pub[1].actions = <<"manual_review_queue">>

\* A worker alert with score 0.0005 and one fired rule, short-circuited
\* and recommended step_up.
C39_Witness ==
    /\ Handled /\ LastOut.path = "short"
    /\ AgentThresholds(policy_doc) = <<tau, tau_high>> /\ tau > env.MIN_SCORE_FOR_LLM
    /\ LastAlert.score = Num(5) /\ LastAlert.reasons = ListOf(<<"r1">>)
    /\ LastOut.pub # <<>> /\ LastOut.pub[1].decision_recommendation = "step_up"
    /\ ~LastOut.llm_called

============================================================================
